---- MODULE Spec2Model ----
(***************************************************************************)
(* ProPersona: the sign-up / create-persona provisioning workflows, the    *)
(* identity provider and the row-secured store they talk to.               *)
(*                                                                         *)
(* Text that the code inspects character by character (email, resume text, *)
(* API key) is a sequence of one-character strings; text that is only      *)
(* compared, measured or interpolated is a TLA+ string.                    *)
(***************************************************************************)
EXTENDS Integers, Sequences, FiniteSets, TLC

VARIABLES
    identities,     \* auth.users: set of [id, email, password]
    profiles,       \* public.profiles: function identity id -> profile row
    personas,       \* public.personas: set of rows
    session,        \* AuthProvider session: NULL or the signed-in identity id
    location,       \* the router's current path
    su_pc,          \* SignUp.handleSubmit: where the handler is suspended
    su,             \* SignUp.handleSubmit: captured form fields and locals
    su_isLoading,   \* SignUp isLoading
    su_errors,      \* SignUp errors (field -> message)
    su_toast,       \* last toast shown by SignUp.handleSubmit in this submission
    su_calls,       \* remote calls issued by the current sign-up submission
    cp_pc,          \* CreatePersona.handleSubmit: where the handler is suspended
    cp,             \* CreatePersona.handleSubmit: captured form fields and locals
    cp_isLoading,   \* CreatePersona isLoading
    cp_output,      \* CreatePersona personaOutput
    cp_toast,       \* last toast shown by CreatePersona.handleSubmit
    cp_calls,       \* remote calls issued by the current create-persona submission
    cp_timer,       \* the pending setTimeout(() => navigate('/account'), 2000)
    runs,           \* submissions that got past the local checks (bounded)
    now,            \* the store's clock, now()
    id_seq,         \* number of persona ids generated so far (gen_random_uuid)
    acc_pc,         \* Account: where fetchData / handleVisibilitySave is suspended
    acc_profile,    \* Account profile: <<>> (null) or <<row>>
    acc_persona,    \* Account persona: <<>> (null) or <<row>>
    acc_loading,    \* Account loading
    acc_visibility, \* Account visibility ('public' / 'private')
    acc_saving,     \* Account saving
    acc_toast,      \* last toast shown by Account
    acc_req,        \* the personas.update request in flight
    acc_log,        \* the last two acknowledged visibility saves, oldest first
    pp_pc,          \* PublicPersonas: where fetchPublicPersonas is suspended
    pp_personas,    \* PublicPersonas personas (the displayed list)
    pp_loading,     \* PublicPersonas loading
    pp_toast,       \* last toast shown by PublicPersonas
    pp_reply,       \* { data, error } of the listing query: error, columns of data
    db_last         \* the last request a store client made, with its result

vars == <<identities, profiles, personas, session, location,
          su_pc, su, su_isLoading, su_errors, su_toast, su_calls,
          cp_pc, cp, cp_isLoading, cp_output, cp_toast, cp_calls, cp_timer,
          runs, now, id_seq,
          acc_pc, acc_profile, acc_persona, acc_loading, acc_visibility,
          acc_saving, acc_toast, acc_req, acc_log,
          pp_pc, pp_personas, pp_loading, pp_toast, pp_reply, db_last>>

backend == <<identities, profiles, personas>>
su_vars == <<su_pc, su, su_isLoading, su_errors, su_toast, su_calls>>
cp_vars == <<cp_pc, cp, cp_isLoading, cp_output, cp_toast, cp_calls, cp_timer>>
acc_vars == <<acc_pc, acc_profile, acc_persona, acc_loading, acc_visibility,
              acc_saving, acc_toast, acc_req, acc_log>>
pp_vars == <<pp_pc, pp_personas, pp_loading, pp_toast, pp_reply>>

NULL == "null"

----------------------------------------------------------------------------
(* Bounds *)

\* number of submissions (of either form) that get past the local checks
MaxRuns == 2

----------------------------------------------------------------------------
(* Input domains *)

EmailA == <<"a", "@", "b", ".", "i", "o">>
EmailC == <<"c", "@", "b", ".", "i", "o">>
EmailNoTld == <<"a", "@", "b">>
Emails == {EmailA, EmailC, EmailNoTld, <<>>}

Passwords == {"", "1234567", "12345678"}
FirstNames == {"", "Ada"}
LastNames == {"", "Byron"}
ResumeTexts == {<<>>, <<" ", "\n">>, <<" ", "c", "v", " ">>}
ApiKeys == {<<>>, <<" ">>, <<"s", "k">>}
SU_ApiKeys == {<<>>, <<"s", "k">>}
Visibilities == {"public", "private"}
AgentIds == {"abc123", "xyz789"}
UserIdSeq == <<"u1", "u2", "u3">>

\* error messages of the identity provider other than the duplicate one
OtherAuthErrors == {"Signup is disabled", "Email rate limit exceeded"}
\* error messages of the edge function / the store ("" : an error without message)
RemoteErrors == {"Edge Function returned a non-2xx status code", ""}

----------------------------------------------------------------------------
(* Text helpers *)

Whitespace == {" ", "\n", "\t"}
Letters == {"a", "b", "c", "i", "o", "s", "k", "v"}

RECURSIVE TrimStart(_)
TrimStart(s) ==
    IF s # <<>> /\ Head(s) \in Whitespace THEN TrimStart(Tail(s)) ELSE s

RECURSIVE TrimEnd(_)
TrimEnd(s) ==
    IF s # <<>> /\ s[Len(s)] \in Whitespace
    THEN TrimEnd(SubSeq(s, 1, Len(s) - 1)) ELSE s

\* String.prototype.trim
Trim(s) == TrimEnd(TrimStart(s))

\* z.string().email(): one "@", a local part that neither starts nor ends
\* with ".", no "..", a domain of dot-separated non-empty labels whose
\* last label has at least two letters
AtPositions(s) == {i \in 1..Len(s) : s[i] = "@"}
IsEmail(s) ==
    /\ Cardinality(AtPositions(s)) = 1
    /\ LET at == CHOOSE i \in AtPositions(s) : TRUE
           local == SubSeq(s, 1, at - 1)
           domain == SubSeq(s, at + 1, Len(s))
           dots == {i \in 1..Len(domain) : domain[i] = "."}
           lastDot == CHOOSE i \in dots : \A j \in dots : j <= i
       IN /\ local # <<>>
          /\ Head(local) # "."
          /\ local[Len(local)] # "."
          /\ \A i \in 1..(Len(s) - 1) : ~(s[i] = "." /\ s[i + 1] = ".")
          /\ \A i \in 1..Len(local) : local[i] \in Letters \cup {"."}
          /\ dots # {}
          /\ domain # <<>>
          /\ Head(domain) \in Letters
          /\ \A i \in 1..Len(domain) : domain[i] \in Letters \cup {"."}
          /\ Len(domain) - lastDot >= 2
          /\ \A i \in (lastDot + 1)..Len(domain) : domain[i] \in Letters

\* a JavaScript template literal `${prefix}${x}${suffix}` over strings
Interpolate(prefix, x, suffix) == prefix \o x \o suffix

----------------------------------------------------------------------------
(* Toasts *)

Toast(title, description, variant) ==
    [title |-> title, description |-> description, variant |-> variant]

NoToast == Toast(NULL, NULL, NULL)

----------------------------------------------------------------------------
(* Derived URL templates *)

SU_avatarUrl(userId) ==
    Interpolate("https://api.dicebear.com/7.x/pixel-art/svg?seed=", userId, "&scale=100")

SU_conversationLink(agentId) ==
    Interpolate("https://elevenlabs.io/app/talk-to?agent_id=", agentId, "")

CP_avatarUrl_no_scale(userId) ==
    Interpolate("https://api.dicebear.com/7.x/pixel-art/svg?seed=", userId, "")

CP_avatarUrl(userId) ==
    Interpolate("https://api.dicebear.com/7.x/pixel-art/svg?seed=", userId, "&scale=100")

CP_conversationLink(agentId) ==
    Interpolate("https://elevenlabs.io/app/talk-to?agent_id=", agentId, "")

----------------------------------------------------------------------------
(* The store: tables, triggers and row policies of the migration *)

\* handle_new_user: the profile row created by the trigger on auth.users
NewProfile(firstName, lastName) ==
    [first_name |-> firstName, last_name |-> lastName,
     elevenlabs_agent_id |-> NULL, elevenlabs_agent_link |-> NULL]

\* "Users can view their own profile"
ProfileSelectPolicy(uid, id) == uid = id

ProfileUpdatePolicy_any_signed_in(uid, id) == uid # NULL

\* "Users can update their own profile"
ProfileUpdatePolicy(uid, id) == uid = id

\* "Users can insert their own persona"
PersonaInsertPolicy(uid, row) == uid = row.user_id

\* personas row as inserted by the client; id is generated by the store
PersonaRow(id, userId, isPublic, apiKey, agentId, link, avatar) ==
    [id |-> id, user_id |-> userId, is_public |-> isPublic,
     elevenlabs_api_key |-> apiKey, agent_id |-> agentId,
     conversation_link |-> link, avatar_url |-> avatar,
     created_at |-> now, updated_at |-> now]

NextPersonaId == id_seq + 1

ProfilesAfterUpdate_agent_id_only(uid, id, agentId, link) ==
    IF id \in DOMAIN profiles /\ ProfileUpdatePolicy(uid, id)
    THEN [profiles EXCEPT ![id].elevenlabs_agent_id = agentId]
    ELSE profiles

\* supabase.from('profiles').update({...}).eq('id', id) issued with JWT uid:
\* rows the policy hides are not matched and no error is returned
ProfilesAfterUpdate(uid, id, agentId, link) ==
    IF id \in DOMAIN profiles /\ ProfileUpdatePolicy(uid, id)
    THEN [profiles EXCEPT ![id].elevenlabs_agent_id = agentId,
                          ![id].elevenlabs_agent_link = link]
    ELSE profiles

\* "Users can insert their own profile"
ProfileInsertPolicy(uid, id) == uid = id

\* "Users can view their own persona" or "Anyone can view public personas"
PersonaSelectPolicy(uid, row) == uid = row.user_id \/ row.is_public = TRUE

PersonaUpdatePolicy_nobody(uid, row) == FALSE

\* "Users can update their own persona"
PersonaUpdatePolicy(uid, row) == uid = row.user_id

PersonaDeletePolicy_any_signed_in(uid, row) == uid # NULL

\* "Users can delete their own persona"
PersonaDeletePolicy(uid, row) == uid = row.user_id

update_updated_at_column_keeps_old(new) == new

\* BEFORE UPDATE ... FOR EACH ROW: NEW.updated_at = now()
update_updated_at_column(new) == [new EXCEPT !.updated_at = now]

\* supabase.from('personas').update({ is_public }).eq('id', id) issued with JWT
\* uid: rows the policy hides are not matched and no error is returned
PersonasAfterVisibilityUpdate(uid, id, isPublic) ==
    {IF r.id = id /\ PersonaUpdatePolicy(uid, r)
     THEN update_updated_at_column([r EXCEPT !.is_public = isPublic])
     ELSE r : r \in personas}

RlsViolation == "new row violates row-level security policy"
FetchFailed == "Failed to fetch"
NetOutcomes == {"ok", FetchFailed}

\* error (or NULL) of supabase.from('personas').insert(row) issued with JWT uid
InsertError(uid, row, net) ==
    IF net # "ok" THEN net
    ELSE IF ~PersonaInsertPolicy(uid, row) THEN RlsViolation
    ELSE NULL

IdentityEmails == {i.email : i \in identities}
NewUserId == UserIdSeq[Cardinality(identities) + 1]

----------------------------------------------------------------------------
(* SignUp *)

PasswordMinLength_off_by_one == 8 - 1
PasswordMinLength == 8

\* signUpSchema.safeParse: the field errors (empty when the parse succeeds)
signUpSchema(f) ==
    LET bad == {k \in {"email", "password", "firstName", "lastName"} :
                   \/ k = "email" /\ ~IsEmail(f.email)
                   \/ k = "password" /\ Len(f.password) < PasswordMinLength
                   \/ k = "firstName" /\ Len(f.firstName) < 1
                   \/ k = "lastName" /\ Len(f.lastName) < 1}
    IN [k \in bad |->
          CASE k = "email" -> "Please enter a valid email address"
            [] k = "password" -> "Password must be at least 8 characters"
            [] k = "firstName" -> "First name is required"
            [] k = "lastName" -> "Last name is required"]

SU_LocalCheck_no_key_check(f) ==
    IF DOMAIN signUpSchema(f) # {} THEN "invalid"
    ELSE IF Trim(f.resumeText) = <<>> THEN "resume"
    ELSE "ok"

\* the three local checks of handleSubmit, in order
SU_LocalCheck(f) ==
    IF DOMAIN signUpSchema(f) # {} THEN "invalid"
    ELSE IF Trim(f.resumeText) = <<>> THEN "resume"
    ELSE IF f.apiKey = <<>> THEN "apikey"
    ELSE "ok"

AlreadyRegistered == "User already registered"
AlreadyExistsMessage == "An account with this email already exists. Please sign in."

SU_AuthErrorDescription_passthrough(message) == message

\* description of the 'Sign up failed' toast
SU_AuthErrorDescription(message) ==
    IF message = AlreadyRegistered THEN AlreadyExistsMessage ELSE message

\* error.message || 'An unexpected error occurred.'
SU_CatchDescription(message) ==
    IF message = "" THEN "An unexpected error occurred." ELSE message

SU_AuthErrorAborts_never(authError) == FALSE

\* if (authError) { ...; return; }
SU_AuthErrorAborts(authError) == authError # NULL

SU_StopsAfterSignUp_never(user) == FALSE

\* const user = authData.user; if (!user) { ... return; }
SU_StopsAfterSignUp(user) == user = NULL

SU_AgentThrows_never(agentError) == FALSE

\* if (agentError) throw agentError;
SU_AgentThrows(agentError) == agentError # NULL

SU_ProfileUpdateThrows_on_error(profileUpdateError) == profileUpdateError # NULL

\* if (profileUpdateError) { console.error(...) }  -- never throws
SU_ProfileUpdateThrows(profileUpdateError) == FALSE

SU_InsertThrows_never(insertError) == FALSE

\* if (insertError) throw insertError;
SU_InsertThrows(insertError) == insertError # NULL

SU_Blank ==
    [email |-> <<>>, password |-> "", firstName |-> "", lastName |-> "",
     resumeText |-> <<>>, apiKey |-> <<>>, isPublic |-> "public",
     authError |-> NULL, created |-> [id |-> NULL, kind |-> NULL], user |-> NULL,
     agentError |-> NULL, agent_id |-> NULL,
     avatarUrl |-> NULL, conversationLink |-> NULL,
     profileUpdateError |-> NULL, insertError |-> NULL, inserted |-> 0]

\* every combination of field values
SU_Forms ==
    [email : Emails, password : Passwords, firstName : FirstNames,
     lastName : LastNames, resumeText : ResumeTexts, apiKey : SU_ApiKeys,
     isPublic : Visibilities]

\* the forms of the workflow specification: well-formed registration fields,
\* with or without a resume
SU_RunForms ==
    {f \in SU_Forms : /\ DOMAIN signUpSchema(f) = {}
                      /\ f.apiKey # <<>>
                      /\ f.resumeText # <<>>}

\* handleSubmit up to the first await.  The handler overwrites every piece of
\* component state it reads, so a submission is taken from a fresh form.
SU_Submit(f) ==
    /\ location = "/signup"
    /\ session = NULL
    /\ su_pc = "idle"
    /\ ~su_isLoading
    /\ SU_LocalCheck(f) = "ok" => runs < MaxRuns
    /\ runs' = IF SU_LocalCheck(f) = "ok" THEN runs + 1 ELSE runs
    /\ su' = [SU_Blank EXCEPT !.email = f.email, !.password = f.password,
                 !.firstName = f.firstName, !.lastName = f.lastName,
                 !.resumeText = f.resumeText, !.apiKey = f.apiKey,
                 !.isPublic = f.isPublic]
    /\ LET check == SU_LocalCheck(f) IN
         /\ su_errors' = IF check = "invalid" THEN signUpSchema(f) ELSE <<>>
         /\ su_toast' =
              CASE check = "resume" ->
                     Toast("Resume Required",
                           "Please paste your resume or upload a document.", "destructive")
                [] check = "apikey" ->
                     Toast("API Key Required",
                           "Please provide your ElevenLabs API key.", "destructive")
                [] OTHER -> NoToast
         /\ su_isLoading' = (check = "ok")
         /\ su_pc' = IF check = "ok" THEN "signUp" ELSE "done"
         /\ su_calls' = IF check = "ok" THEN <<"signUp">> ELSE <<>>
    /\ UNCHANGED <<backend, session, location, cp_vars>>
    /\ UNCHANGED <<now, id_seq, acc_vars, pp_vars, db_last>>

\* the catch block of handleSubmit
SU_Catch(message) ==
    /\ su_isLoading' = FALSE
    /\ su_toast' = Toast("Error Creating Persona", SU_CatchDescription(message), "destructive")
    /\ su_pc' = "done"

\* supabase.auth.signUp returns an error
SU_SignUpError(message) ==
    /\ su_pc = "signUp"
    /\ \/ message = AlreadyRegistered /\ su.email \in IdentityEmails
       \/ message \in OtherAuthErrors
    /\ su' = [su EXCEPT !.authError = message]
    /\ su_isLoading' = FALSE
    /\ su_pc' = "done"
    /\ IF SU_AuthErrorAborts(message)
       THEN /\ su_toast' = Toast("Sign up failed", SU_AuthErrorDescription(message),
                                 "destructive")
            /\ UNCHANGED location
       ELSE \* authData.user is null when an error is returned
            /\ su_toast' = Toast("Check your email",
                  "Please verify your email to complete registration.", NULL)
            /\ location' = "/"
    /\ UNCHANGED <<backend, session, su_errors, su_calls, cp_vars>>
    /\ UNCHANGED <<runs, now, id_seq, acc_vars, pp_vars, db_last>>

\* supabase.auth.signUp creates the identity (and, by trigger, its profile).
\* kind: "session"  - user and session returned (identity usable at once)
\*       "unconfirmed_user" - confirmation required: user returned, no session
\*       "unconfirmed_null" - confirmation required: no user returned
SignUpKinds == {"session", "unconfirmed_user", "unconfirmed_null"}

SU_SignUpCreated(kind) ==
    /\ su_pc = "signUp"
    /\ su.email \notin IdentityEmails
    /\ LET id == NewUserId
           user == IF kind = "unconfirmed_null" THEN NULL ELSE id
       IN /\ identities' = identities \cup
                 {[id |-> id, email |-> su.email, password |-> su.password]}
          /\ profiles' = [i \in DOMAIN profiles \cup {id} |->
                            IF i = id THEN NewProfile(su.firstName, su.lastName)
                            ELSE profiles[i]]
          /\ session' = IF kind = "session" THEN id ELSE session
          /\ su' = [su EXCEPT !.user = user, !.created = [id |-> id, kind |-> kind]]
          /\ IF SU_StopsAfterSignUp(user)
             THEN /\ su_isLoading' = FALSE
                  /\ su_toast' = Toast("Check your email",
                        "Please verify your email to complete registration.", NULL)
                  /\ location' = "/"
                  /\ su_pc' = "done"
                  /\ UNCHANGED su_calls
             ELSE /\ su_pc' = "agent"
                  /\ su_calls' = Append(su_calls, "create-agent")
                  /\ UNCHANGED <<su_isLoading, su_toast, location>>
    /\ UNCHANGED <<personas, su_errors, cp_vars>>
    /\ UNCHANGED <<runs, now, id_seq, acc_vars, pp_vars, db_last>>

\* supabase.functions.invoke('create-agent') returns
SU_AgentReturn(agentError, agentId) ==
    /\ su_pc = "agent"
    /\ \/ agentError = NULL /\ agentId \in AgentIds
       \/ agentError \in RemoteErrors /\ agentId = NULL
    /\ IF SU_AgentThrows(agentError)
       THEN /\ SU_Catch(agentError)
            /\ su' = [su EXCEPT !.agentError = agentError]
            /\ UNCHANGED su_calls
       ELSE /\ su' = [su EXCEPT !.agentError = agentError, !.agent_id = agentId,
                         !.avatarUrl = SU_avatarUrl(su.user),
                         !.conversationLink = SU_conversationLink(agentId)]
            /\ su_pc' = "profile"
            /\ su_calls' = Append(su_calls, "profiles.update")
            /\ UNCHANGED <<su_isLoading, su_toast>>
    /\ UNCHANGED <<backend, session, location, su_errors, cp_vars>>
    /\ UNCHANGED <<runs, now, id_seq, acc_vars, pp_vars, db_last>>

\* supabase.from('profiles').update(...).eq('id', user.id) returns
SU_ProfileUpdateReturn(net) ==
    /\ su_pc = "profile"
    /\ net \in NetOutcomes
    /\ LET profileUpdateError == IF net = "ok" THEN NULL ELSE net IN
         /\ profiles' = IF net = "ok"
                        THEN ProfilesAfterUpdate(session, su.user, su.agent_id,
                                                 su.conversationLink)
                        ELSE profiles
         /\ su' = [su EXCEPT !.profileUpdateError = profileUpdateError]
         /\ IF SU_ProfileUpdateThrows(profileUpdateError)
            THEN /\ SU_Catch(profileUpdateError)
                 /\ UNCHANGED su_calls
            ELSE /\ su_pc' = "insert"
                 /\ su_calls' = Append(su_calls, "personas.insert")
                 /\ UNCHANGED <<su_isLoading, su_toast>>
    /\ UNCHANGED <<identities, personas, session, location, su_errors, cp_vars>>
    /\ UNCHANGED <<runs, now, id_seq, acc_vars, pp_vars, db_last>>

\* supabase.from('personas').insert(...) returns
SU_InsertReturn(net) ==
    /\ su_pc = "insert"
    /\ net \in NetOutcomes
    /\ LET row == PersonaRow(NextPersonaId, su.user, su.isPublic = "public", su.apiKey,
                             su.agent_id, su.conversationLink, su.avatarUrl)
           insertError == InsertError(session, row, net)
       IN /\ personas' = IF insertError = NULL THEN personas \cup {row} ELSE personas
          /\ su' = [su EXCEPT !.insertError = insertError,
                       !.inserted = IF insertError = NULL THEN row.id ELSE 0]
          /\ IF SU_InsertThrows(insertError)
             THEN /\ SU_Catch(insertError)
                  /\ UNCHANGED location
             ELSE /\ su_isLoading' = FALSE
                  /\ su_toast' = Toast("Account created!",
                        "Your persona has been set up successfully.", NULL)
                  /\ location' = "/account"
                  /\ su_pc' = "done"
          /\ id_seq' = IF insertError = NULL THEN id_seq + 1 ELSE id_seq
    /\ UNCHANGED <<identities, profiles, session, su_errors, su_calls, cp_vars>>
    /\ UNCHANGED <<runs, now, acc_vars, pp_vars, db_last>>

\* useEffect(() => { if (session) navigate('/account') })
SU_SessionRedirect ==
    /\ location = "/signup"
    /\ session # NULL
    /\ location' = "/account"
    /\ UNCHANGED <<backend, session, su_vars, cp_vars>>
    /\ UNCHANGED <<runs, now, id_seq, acc_vars, pp_vars, db_last>>

\* a remote call of handleSubmit rejects (its promise throws) instead of
\* returning an error value.  supabase.auth.signUp is awaited before the try
\* block: the rejection leaves handleSubmit and none of its remaining
\* statements runs.  The other three calls are awaited inside the try block:
\* the catch block runs.
SU_CallRejects(message) ==
    /\ su_pc \in {"signUp", "agent", "profile", "insert"}
    /\ message \in RemoteErrors
    /\ IF su_pc = "signUp"
       THEN /\ su_pc' = "rejected"
            /\ UNCHANGED <<su_isLoading, su_toast>>
       ELSE SU_Catch(message)
    /\ UNCHANGED <<backend, session, location, su, su_errors, su_calls, cp_vars>>
    /\ UNCHANGED <<runs, now, id_seq, acc_vars, pp_vars, db_last>>

----------------------------------------------------------------------------
(* CreatePersona *)

CP_ProfileIncomplete_first_name_only(data) ==
    \/ data = <<>>
    \/ data[1].first_name \in {NULL, ""}

\* if (!profile?.first_name || !profile?.last_name) throw new Error(...)
\* (data is <<>> for null, <<row>> for a row)
CP_ProfileIncomplete(data) ==
    \/ data = <<>>
    \/ data[1].first_name \in {NULL, ""}
    \/ data[1].last_name \in {NULL, ""}

ProfileIncompleteMessage == "Please ensure your profile has a first and last name."

CP_LocalCheck_no_trim(f, user) ==
    IF f.resumeText = <<>> THEN "resume"
    ELSE IF Trim(f.apiKey) = <<>> THEN "apikey"
    ELSE IF user = NULL THEN "user"
    ELSE "ok"

\* the three local checks of handleSubmit, in order
CP_LocalCheck(f, user) ==
    IF Trim(f.resumeText) = <<>> THEN "resume"
    ELSE IF Trim(f.apiKey) = <<>> THEN "apikey"
    ELSE IF user = NULL THEN "user"
    ELSE "ok"

\* if (agentError) throw agentError;
CP_AgentThrows(agentError) == agentError # NULL

CP_InsertThrows_never(insertError) == FALSE

\* if (insertError) throw insertError;
CP_InsertThrows(insertError) == insertError # NULL

CP_Blank ==
    [resumeText |-> <<>>, apiKey |-> <<>>, isPublic |-> "private", user |-> NULL,
     profile |-> <<>>, agentError |-> NULL, agent_id |-> NULL,
     avatarUrl |-> NULL, conversationLink |-> NULL,
     insertError |-> NULL, inserted |-> 0]

CP_Forms == [resumeText : ResumeTexts, apiKey : ApiKeys, isPublic : Visibilities]

\* the forms of the workflow specification
CP_RunForms ==
    {f \in CP_Forms : Trim(f.resumeText) # <<>> /\ f.apiKey # <<>>}

\* handleSubmit up to the first await; user is the AuthProvider's user
CP_Submit(f) ==
    /\ location = "/create-persona"
    /\ session # NULL
    /\ cp_pc = "idle"
    /\ ~cp_isLoading
    /\ CP_LocalCheck(f, session) = "ok" => runs < MaxRuns
    /\ runs' = IF CP_LocalCheck(f, session) = "ok" THEN runs + 1 ELSE runs
    /\ cp' = [CP_Blank EXCEPT !.resumeText = f.resumeText, !.apiKey = f.apiKey,
                 !.isPublic = f.isPublic, !.user = session]
    /\ LET check == CP_LocalCheck(f, session) IN
         /\ cp_toast' =
              CASE check = "resume" ->
                     Toast("Resume Required",
                           "Please upload a resume or paste text.", "destructive")
                [] check = "apikey" ->
                     Toast("API Key Required",
                           "Please provide your ElevenLabs API key.", "destructive")
                [] check = "user" ->
                     Toast("Not Authenticated",
                           "Please sign in to create a persona.", "destructive")
                [] OTHER -> NoToast
         /\ cp_isLoading' = (check = "ok")
         /\ cp_output' = IF check = "ok" THEN [status |-> "idle", message |-> ""]
                         ELSE cp_output
         /\ cp_pc' = IF check = "ok" THEN "profileRead" ELSE "done"
         /\ cp_calls' = IF check = "ok" THEN <<"profiles.select">> ELSE <<>>
    /\ UNCHANGED <<backend, session, location, su_vars, cp_timer>>
    /\ UNCHANGED <<now, id_seq, acc_vars, pp_vars, db_last>>

CP_Catch_retries(message) ==
    /\ cp_output' = [status |-> "error", message |-> message]
    /\ cp_toast' = Toast("Error", message, "destructive")
    /\ cp_isLoading' = TRUE
    /\ cp_pc' = "profileRead"

\* the catch and finally blocks of handleSubmit
CP_Catch(message) ==
    /\ cp_output' = [status |-> "error", message |-> message]
    /\ cp_toast' = Toast("Error", message, "destructive")
    /\ cp_isLoading' = FALSE
    /\ cp_pc' = "done"

\* supabase.from('profiles').select('first_name, last_name').eq('id', user.id).single()
CP_ProfileReturn(net) ==
    /\ cp_pc = "profileRead"
    /\ net \in NetOutcomes
    /\ LET profile == IF /\ net = "ok"
                         /\ cp.user \in DOMAIN profiles
                         /\ ProfileSelectPolicy(session, cp.user)
                      THEN <<[first_name |-> profiles[cp.user].first_name,
                              last_name |-> profiles[cp.user].last_name]>>
                      ELSE <<>>
       IN /\ cp' = [cp EXCEPT !.profile = profile]
          /\ IF CP_ProfileIncomplete(profile)
             THEN /\ CP_Catch(ProfileIncompleteMessage)
                  /\ UNCHANGED cp_calls
             ELSE /\ cp_pc' = "agent"
                  /\ cp_calls' = Append(cp_calls, "create-agent")
                  /\ UNCHANGED <<cp_isLoading, cp_output, cp_toast>>
    /\ UNCHANGED <<backend, session, location, su_vars, cp_timer>>
    /\ UNCHANGED <<runs, now, id_seq, acc_vars, pp_vars, db_last>>

\* supabase.functions.invoke('create-agent') returns
CP_AgentReturn(agentError, agentId) ==
    /\ cp_pc = "agent"
    /\ \/ agentError = NULL /\ agentId \in AgentIds
       \/ agentError \in RemoteErrors /\ agentId = NULL
    /\ IF CP_AgentThrows(agentError)
       THEN /\ CP_Catch(agentError)
            /\ cp' = [cp EXCEPT !.agentError = agentError]
            /\ UNCHANGED cp_calls
       ELSE /\ cp' = [cp EXCEPT !.agentError = agentError, !.agent_id = agentId,
                         !.avatarUrl = CP_avatarUrl(cp.user),
                         !.conversationLink = CP_conversationLink(agentId)]
            /\ cp_pc' = "insert"
            /\ cp_calls' = Append(cp_calls, "personas.insert")
            /\ UNCHANGED <<cp_isLoading, cp_output, cp_toast>>
    /\ UNCHANGED <<backend, session, location, su_vars, cp_timer>>
    /\ UNCHANGED <<runs, now, id_seq, acc_vars, pp_vars, db_last>>

\* supabase.from('personas').insert(...) returns
CP_InsertReturn(net) ==
    /\ cp_pc = "insert"
    /\ net \in NetOutcomes
    /\ LET row == PersonaRow(NextPersonaId, cp.user, cp.isPublic = "public", cp.apiKey,
                             cp.agent_id, cp.conversationLink, cp.avatarUrl)
           insertError == InsertError(session, row, net)
       IN /\ personas' = IF insertError = NULL THEN personas \cup {row} ELSE personas
          /\ cp' = [cp EXCEPT !.insertError = insertError,
                       !.inserted = IF insertError = NULL THEN row.id ELSE 0]
          /\ IF CP_InsertThrows(insertError)
             THEN /\ CP_Catch(insertError)
                  /\ UNCHANGED cp_calls
             ELSE /\ cp_pc' = "profileUpdate"
                  /\ cp_calls' = Append(cp_calls, "profiles.update")
                  /\ UNCHANGED <<cp_isLoading, cp_output, cp_toast>>
          /\ id_seq' = IF insertError = NULL THEN id_seq + 1 ELSE id_seq
    /\ UNCHANGED <<identities, profiles, session, location, su_vars, cp_timer>>
    /\ UNCHANGED <<runs, now, acc_vars, pp_vars, db_last>>

\* await supabase.from('profiles').update(...).eq('id', user.id): the result
\* is not inspected; success is reported and the redirect timer is armed
CP_ProfileUpdateReturn(net) ==
    /\ cp_pc = "profileUpdate"
    /\ net \in NetOutcomes
    /\ profiles' = IF net = "ok"
                   THEN ProfilesAfterUpdate(session, cp.user, cp.agent_id,
                                            cp.conversationLink)
                   ELSE profiles
    /\ cp_output' = [status |-> "success",
                     message |-> "Persona created successfully! Redirecting..."]
    /\ cp_toast' = Toast("Success!", "Your persona is ready.", NULL)
    /\ cp_timer' = TRUE
    /\ cp_isLoading' = FALSE
    /\ cp_pc' = "done"
    /\ UNCHANGED <<identities, personas, session, location, su_vars, cp, cp_calls>>
    /\ UNCHANGED <<runs, now, id_seq, acc_vars, pp_vars, db_last>>

\* setTimeout(() => navigate('/account'), 2000) fires
CP_Timer ==
    /\ cp_timer
    /\ cp_timer' = FALSE
    /\ location' = "/account"
    /\ UNCHANGED <<backend, session, su_vars, cp_pc, cp, cp_isLoading, cp_output,
                   cp_toast, cp_calls>>
    /\ UNCHANGED <<runs, now, id_seq, acc_vars, pp_vars, db_last>>

\* a remote call of handleSubmit rejects instead of returning an error
\* value: all four are awaited inside try / catch / finally
CP_CallRejects(message) ==
    /\ cp_pc \in {"profileRead", "agent", "insert", "profileUpdate"}
    /\ message \in RemoteErrors
    /\ CP_Catch(message)
    /\ UNCHANGED <<backend, session, location, su_vars, cp, cp_calls, cp_timer>>
    /\ UNCHANGED <<runs, now, id_seq, acc_vars, pp_vars, db_last>>

----------------------------------------------------------------------------
(* Account *)

\* .select('id, is_public, updated_at, avatar_url, conversation_link')
Account_PersonaColumns(r) ==
    [id |-> r.id, is_public |-> r.is_public, updated_at |-> r.updated_at,
     avatar_url |-> r.avatar_url, conversation_link |-> r.conversation_link]

\* visibility === 'public'
Account_IsPublic(visibility) == visibility = "public"

NoRequest == [uid |-> NULL, id |-> 0, is_public |-> FALSE, error |-> NULL]

\* useEffect: without a session go to the sign-in page, otherwise fetchData
\* up to its first await
Account_Mount ==
    /\ location = "/account"
    /\ acc_pc = "unmounted"
    /\ IF session = NULL
       THEN /\ location' = "/signin"
            /\ UNCHANGED acc_vars
       ELSE /\ acc_loading' = TRUE
            /\ acc_pc' = "profile"
            /\ acc_req' = [NoRequest EXCEPT !.uid = session]
            /\ UNCHANGED <<location, acc_profile, acc_persona, acc_visibility,
                           acc_saving, acc_toast, acc_log>>
    /\ UNCHANGED <<backend, session, su_vars, cp_vars, pp_vars, runs, now, id_seq, db_last>>

\* fetchData: profiles.select(...).eq('id', user.id).single() returns and the
\* personas query is issued
Account_ProfileReturn(net) ==
    /\ acc_pc = "profile"
    /\ net \in NetOutcomes
    /\ LET uid == acc_req.uid
           found == net = "ok" /\ uid \in DOMAIN profiles /\ ProfileSelectPolicy(uid, uid)
       IN acc_profile' = IF found THEN <<profiles[uid]>> ELSE acc_profile
    /\ acc_pc' = "persona"
    /\ UNCHANGED <<acc_persona, acc_loading, acc_visibility, acc_saving, acc_toast,
                   acc_req, acc_log>>
    /\ UNCHANGED <<backend, session, location, su_vars, cp_vars, pp_vars, runs, now,
                   id_seq, db_last>>

\* fetchData: personas.select(...).eq('user_id', user.id).maybeSingle() returns
\* (no row: null data; more than one row: an error)
Account_PersonaReturn(net) ==
    /\ acc_pc = "persona"
    /\ net \in NetOutcomes
    /\ LET uid == acc_req.uid
           rows == {r \in personas : r.user_id = uid /\ PersonaSelectPolicy(uid, r)}
           personaError == net # "ok" \/ Cardinality(rows) > 1
       IN IF ~personaError /\ rows # {}
          THEN LET personaData == Account_PersonaColumns(CHOOSE r \in rows : TRUE)
               IN /\ acc_persona' = <<personaData>>
                  /\ acc_visibility' = IF personaData.is_public THEN "public" ELSE "private"
          ELSE UNCHANGED <<acc_persona, acc_visibility>>
    /\ acc_loading' = FALSE
    /\ acc_pc' = "ready"
    /\ UNCHANGED <<acc_profile, acc_saving, acc_toast, acc_req, acc_log>>
    /\ UNCHANGED <<backend, session, location, su_vars, cp_vars, pp_vars, runs, now,
                   id_seq, db_last>>

\* <RadioGroup value={visibility} onValueChange={setVisibility}>
setVisibility(v) ==
    /\ acc_pc \in {"ready", "saving"}
    /\ acc_persona # <<>>
    /\ v \in Visibilities
    /\ v # acc_visibility
    /\ acc_visibility' = v
    /\ UNCHANGED <<acc_pc, acc_profile, acc_persona, acc_loading, acc_saving, acc_toast,
                   acc_req, acc_log>>
    /\ UNCHANGED <<backend, session, location, su_vars, cp_vars, pp_vars, runs, now,
                   id_seq, db_last>>

\* handleVisibilitySave up to its await (the button is disabled while saving)
handleVisibilitySave ==
    /\ acc_pc = "ready"
    /\ ~acc_saving
    /\ acc_persona # <<>>
    /\ acc_saving' = TRUE
    /\ acc_req' = [uid |-> session, id |-> acc_persona[1].id,
                   is_public |-> Account_IsPublic(acc_visibility), error |-> NULL]
    /\ acc_pc' = "saving"
    /\ UNCHANGED <<acc_profile, acc_persona, acc_loading, acc_visibility, acc_toast, acc_log>>
    /\ UNCHANGED <<backend, session, location, su_vars, cp_vars, pp_vars, runs, now,
                   id_seq, db_last>>

Account_ShowsSavedValue_on_any_reply(error) == TRUE

\* if (error) { toast Error } else { toast Saved; setPersona({...}) }
Account_ShowsSavedValue(error) == error = NULL

\* the stored is_public values of the row with this id
StoredIsPublic(id) == {r.is_public : r \in {q \in personas : q.id = id}}

\* handleVisibilitySave after its await
Account_UpdateReturn(net) ==
    /\ acc_pc = "saving"
    /\ net \in NetOutcomes
    /\ LET error == IF net = "ok" THEN NULL ELSE net
           after == IF net = "ok"
                    THEN PersonasAfterVisibilityUpdate(acc_req.uid, acc_req.id,
                                                       acc_req.is_public)
                    ELSE personas
           entry == [owned |-> \E r \in personas : r.id = acc_req.id /\ r.user_id = acc_req.uid,
                     before |-> StoredIsPublic(acc_req.id),
                     value |-> acc_req.is_public,
                     after |-> {r.is_public : r \in {q \in after : q.id = acc_req.id}}]
       IN /\ personas' = after
          /\ acc_saving' = FALSE
          /\ acc_toast' = IF error # NULL
                          THEN Toast("Error", "Could not update visibility.", "destructive")
                          ELSE Toast("Saved", "Visibility settings updated.", NULL)
          /\ acc_persona' = IF Account_ShowsSavedValue(error)
                            THEN <<[acc_persona[1] EXCEPT !.is_public = acc_req.is_public]>>
                            ELSE acc_persona
          /\ acc_log' = IF error # NULL THEN acc_log
                        ELSE IF Len(acc_log) < 2 THEN Append(acc_log, entry)
                        ELSE <<acc_log[2], entry>>
          /\ acc_req' = [acc_req EXCEPT !.error = error]
    /\ acc_pc' = "ready"
    /\ UNCHANGED <<acc_profile, acc_loading, acc_visibility>>
    /\ UNCHANGED <<identities, profiles, session, location, su_vars, cp_vars, pp_vars,
                   runs, now, id_seq, db_last>>

\* leaving the account page discards the component state of a view at rest
Account_Unmount ==
    IF acc_pc = "ready"
    THEN /\ acc_pc' = "unmounted"
         /\ acc_profile' = <<>>
         /\ acc_persona' = <<>>
         /\ acc_loading' = TRUE
         /\ acc_visibility' = "private"
         /\ acc_saving' = FALSE
         /\ acc_toast' = NoToast
         /\ acc_req' = NoRequest
         /\ acc_log' = <<>>
    ELSE UNCHANGED acc_vars

----------------------------------------------------------------------------
(* PublicPersonas *)

\* the orders in which the store may return a set of rows
Orderings(S) ==
    {q \in [1..Cardinality(S) -> S] : \A i, j \in 1..Cardinality(S) : q[i] = q[j] => i = j}

PP_Columns_select_all(r) == r

\* .select('id, avatar_url, agent_id')
PP_Columns(r) == [id |-> r.id, avatar_url |-> r.avatar_url, agent_id |-> r.agent_id]

\* .eq('is_public', true), under the select policies for caller uid
PP_Rows(uid) == {r \in personas : r.is_public = TRUE /\ PersonaSelectPolicy(uid, r)}

PP_HasAgent_always(p) == TRUE

\* .filter(p => p.agent_id): null and the empty string are falsy
PP_HasAgent(p) == p.agent_id \notin {NULL, ""}

\* .map((p) => ({ id, avatar_url, agent_id, conversation_link: `...${p.agent_id}` }))
PP_Format(p) ==
    [id |-> p.id, avatar_url |-> p.avatar_url, agent_id |-> p.agent_id,
     conversation_link |->
        Interpolate("https://elevenlabs.io/app/talk-to?agent_id=", p.agent_id, "")]

formattedPersonas(data) ==
    LET kept == SelectSeq(data, PP_HasAgent)
    IN [i \in 1..Len(kept) |-> PP_Format(kept[i])]

PP_LoadingAfterFetch_stuck_on_error(error) == error # NULL

\* setLoading(false) after the if/else
PP_LoadingAfterFetch(error) == FALSE

NoReply == [error |-> NULL, columns |-> {}]

\* useEffect: fetchPublicPersonas up to its await
PP_Mount ==
    /\ location = "/personas"
    /\ pp_pc = "unmounted"
    /\ pp_loading' = TRUE
    /\ pp_pc' = "fetch"
    /\ UNCHANGED <<pp_personas, pp_toast, pp_reply>>
    /\ UNCHANGED <<backend, session, location, su_vars, cp_vars, acc_vars, runs, now,
                   id_seq, db_last>>

\* fetchPublicPersonas after its await
PP_FetchReturn(net) ==
    /\ pp_pc = "fetch"
    /\ net \in NetOutcomes
    /\ \E data \in IF net = "ok"
                    THEN Orderings({PP_Columns(r) : r \in PP_Rows(session)})
                    ELSE {<<>>} :
       LET error == IF net = "ok" THEN NULL ELSE net
       IN /\ IF error # NULL
             THEN /\ pp_toast' = Toast("Error", "Could not fetch public personas.",
                                       "destructive")
                  /\ pp_personas' = <<>>
             ELSE /\ pp_personas' = formattedPersonas(data)
                  /\ UNCHANGED pp_toast
          /\ pp_loading' = PP_LoadingAfterFetch(error)
          /\ pp_reply' = [error |-> error,
                          columns |-> UNION {DOMAIN data[i] : i \in 1..Len(data)}]
    /\ pp_pc' = "ready"
    /\ UNCHANGED <<backend, session, location, su_vars, cp_vars, acc_vars, runs, now,
                   id_seq, db_last>>

\* leaving the listing page discards the component state of a view at rest
PP_Unmount ==
    IF pp_pc = "ready"
    THEN /\ pp_pc' = "unmounted"
         /\ pp_personas' = <<>>
         /\ pp_loading' = TRUE
         /\ pp_toast' = NoToast
         /\ pp_reply' = NoReply
    ELSE UNCHANGED pp_vars

----------------------------------------------------------------------------
(* Header and links *)

\* a page's component state (useState) is discarded when the user leaves it;
\* a handler that is still suspended keeps running with its closure
SU_Unmount ==
    IF su_pc \in {"done", "rejected"}
    THEN /\ su_pc' = "idle"
         /\ su' = SU_Blank
         /\ su_isLoading' = FALSE
         /\ su_errors' = <<>>
         /\ su_toast' = NoToast
         /\ su_calls' = <<>>
    ELSE UNCHANGED su_vars

CP_Unmount ==
    IF cp_pc = "done"
    THEN /\ cp_pc' = "idle"
         /\ cp' = CP_Blank
         /\ cp_isLoading' = FALSE
         /\ cp_output' = [status |-> "idle", message |-> ""]
         /\ cp_toast' = NoToast
         /\ cp_calls' = <<>>
         /\ UNCHANGED cp_timer
    ELSE UNCHANGED cp_vars

\* Header.handleSignOut: await signOut(); navigate('/')
handleSignOut ==
    /\ session # NULL
    /\ session' = NULL
    /\ location' = "/"
    /\ SU_Unmount
    /\ CP_Unmount
    /\ Account_Unmount
    /\ PP_Unmount
    /\ UNCHANGED backend
    /\ UNCHANGED <<runs, now, id_seq, db_last>>

\* the <Link>s of the header (by session) and of the account page
LinkTargets ==
    {"/", "/personas"}
      \cup (IF session # NULL THEN {"/account"} ELSE {"/signin", "/signup"})
      \cup (IF session # NULL /\ location = "/account" THEN {"/create-persona"} ELSE {})

FollowLink(target) ==
    /\ target \in LinkTargets
    /\ target # location
    /\ location' = target
    /\ SU_Unmount
    /\ CP_Unmount
    /\ Account_Unmount
    /\ PP_Unmount
    /\ UNCHANGED <<backend, session>>
    /\ UNCHANGED <<runs, now, id_seq, db_last>>

----------------------------------------------------------------------------
(* Specification *)

\* the account and listing views before they are mounted; no store client
\* request yet
NoDbRequest ==
    [op |-> NULL, table |-> NULL, uid |-> NULL, id |-> 0, pid |-> NULL,
     error |-> NULL, rows |-> {}, ids |-> {}]

ViewsInit ==
    /\ now = 0
    /\ id_seq = 0
    /\ acc_pc = "unmounted"
    /\ acc_profile = <<>>
    /\ acc_persona = <<>>
    /\ acc_loading = TRUE
    /\ acc_visibility = "private"
    /\ acc_saving = FALSE
    /\ acc_toast = NoToast
    /\ acc_req = NoRequest
    /\ acc_log = <<>>
    /\ pp_pc = "unmounted"
    /\ pp_personas = <<>>
    /\ pp_loading = TRUE
    /\ pp_toast = NoToast
    /\ pp_reply = NoReply
    /\ db_last = NoDbRequest

Init ==
    /\ identities = {}
    /\ profiles = <<>>
    /\ personas = {}
    /\ session = NULL
    /\ location = "/"
    /\ su_pc = "idle"
    /\ su = SU_Blank
    /\ su_isLoading = FALSE
    /\ su_errors = <<>>
    /\ su_toast = NoToast
    /\ su_calls = <<>>
    /\ cp_pc = "idle"
    /\ cp = CP_Blank
    /\ cp_isLoading = FALSE
    /\ cp_output = [status |-> "idle", message |-> ""]
    /\ cp_toast = NoToast
    /\ cp_calls = <<>>
    /\ cp_timer = FALSE
    /\ runs = 0
    /\ ViewsInit

Next ==
    \/ \E f \in SU_RunForms : SU_Submit(f)
    \/ \E m \in {AlreadyRegistered} \cup OtherAuthErrors : SU_SignUpError(m)
    \/ \E k \in SignUpKinds : SU_SignUpCreated(k)
    \/ \E e \in RemoteErrors \cup {NULL}, a \in AgentIds \cup {NULL} : SU_AgentReturn(e, a)
    \/ \E n \in NetOutcomes : SU_ProfileUpdateReturn(n)
    \/ \E n \in NetOutcomes : SU_InsertReturn(n)
    \/ SU_SessionRedirect
    \/ \E f \in CP_RunForms : CP_Submit(f)
    \/ \E n \in NetOutcomes : CP_ProfileReturn(n)
    \/ \E e \in RemoteErrors \cup {NULL}, a \in AgentIds \cup {NULL} : CP_AgentReturn(e, a)
    \/ \E n \in NetOutcomes : CP_InsertReturn(n)
    \/ \E n \in NetOutcomes : CP_ProfileUpdateReturn(n)
    \/ CP_Timer
    \/ handleSignOut
    \/ \E t \in {"/", "/personas", "/account", "/signin", "/signup", "/create-persona"} :
          FollowLink(t)

Spec == Init /\ [][Next]_vars

----------------------------------------------------------------------------
(* The submit handlers applied to every combination of field values: the   *)
(* user is either signed out on the sign-up page or signed in on the       *)
(* create-persona page, and submits one form.                              *)

\* first_name and last_name as handle_new_user stores them: the sign-up
\* metadata, NULL for a key the metadata lacks
StoredNames == {<<"Ada", "Byron">>, <<"Ada", NULL>>, <<"", "Byron">>, <<NULL, NULL>>}

InitForms ==
    /\ \/ /\ identities = {}
          /\ profiles = <<>>
          /\ session = NULL
          /\ location = "/signup"
       \/ /\ identities = {[id |-> "u1", email |-> EmailA, password |-> "12345678"]}
          /\ \E names \in StoredNames :
                profiles = [i \in {"u1"} |-> NewProfile(names[1], names[2])]
          /\ session = "u1"
          /\ location = "/create-persona"
    /\ personas = {}
    /\ su_pc = "idle"
    /\ su = SU_Blank
    /\ su_isLoading = FALSE
    /\ su_errors = <<>>
    /\ su_toast = NoToast
    /\ su_calls = <<>>
    /\ cp_pc = "idle"
    /\ cp = CP_Blank
    /\ cp_isLoading = FALSE
    /\ cp_output = [status |-> "idle", message |-> ""]
    /\ cp_toast = NoToast
    /\ cp_calls = <<>>
    /\ cp_timer = FALSE
    /\ runs = 0
    /\ ViewsInit

NextForms ==
    \/ \E f \in SU_Forms : SU_Submit(f)
    \/ \E m \in {AlreadyRegistered} \cup OtherAuthErrors : SU_SignUpError(m)
    \/ \E k \in SignUpKinds : SU_SignUpCreated(k)
    \/ \E e \in RemoteErrors \cup {NULL}, a \in AgentIds \cup {NULL} : SU_AgentReturn(e, a)
    \/ \E n \in NetOutcomes : SU_ProfileUpdateReturn(n)
    \/ \E n \in NetOutcomes : SU_InsertReturn(n)
    \/ \E f \in CP_Forms : CP_Submit(f)
    \/ \E n \in NetOutcomes : CP_ProfileReturn(n)
    \/ \E e \in RemoteErrors \cup {NULL}, a \in AgentIds \cup {NULL} : CP_AgentReturn(e, a)
    \/ \E n \in NetOutcomes : CP_InsertReturn(n)
    \/ \E n \in NetOutcomes : CP_ProfileUpdateReturn(n)

SpecForms == InitForms /\ [][NextForms]_vars

----------------------------------------------------------------------------
(* The account view of a signed-in (or signed-out) visitor over a store    *)
(* that already holds identities and personas                              *)

MaxClock == 2

\* a persona row as the workflow inserts it
SeededPersona(id, userId, isPublic) ==
    PersonaRow(id, userId, isPublic, <<"s", "k">>, "abc123",
               CP_conversationLink("abc123"), CP_avatarUrl(userId))

InitAccount ==
    /\ now = 0
    /\ identities = {[id |-> "u1", email |-> EmailA, password |-> "12345678"],
                     [id |-> "u2", email |-> EmailC, password |-> "12345678"]}
    /\ profiles = [i \in {"u1", "u2"} |-> NewProfile("Ada", "Byron")]
    /\ personas \in {{},
                      {SeededPersona(1, "u1", TRUE)},
                      {SeededPersona(1, "u1", FALSE)},
                      {SeededPersona(1, "u1", TRUE), SeededPersona(2, "u2", TRUE)},
                      {SeededPersona(1, "u1", FALSE), SeededPersona(2, "u1", TRUE)}}
    /\ id_seq = Cardinality(personas)
    /\ session \in {NULL, "u1", "u2"}
    /\ location = "/account"
    /\ su_pc = "idle"
    /\ su = SU_Blank
    /\ su_isLoading = FALSE
    /\ su_errors = <<>>
    /\ su_toast = NoToast
    /\ su_calls = <<>>
    /\ cp_pc = "idle"
    /\ cp = CP_Blank
    /\ cp_isLoading = FALSE
    /\ cp_output = [status |-> "idle", message |-> ""]
    /\ cp_toast = NoToast
    /\ cp_calls = <<>>
    /\ cp_timer = FALSE
    /\ runs = 0
    /\ acc_pc = "unmounted"
    /\ acc_profile = <<>>
    /\ acc_persona = <<>>
    /\ acc_loading = TRUE
    /\ acc_visibility = "private"
    /\ acc_saving = FALSE
    /\ acc_toast = NoToast
    /\ acc_req = NoRequest
    /\ acc_log = <<>>
    /\ pp_pc = "unmounted"
    /\ pp_personas = <<>>
    /\ pp_loading = TRUE
    /\ pp_toast = NoToast
    /\ pp_reply = NoReply
    /\ db_last = NoDbRequest

\* time passes
Tick ==
    /\ now < MaxClock
    /\ now' = now + 1
    /\ UNCHANGED <<backend, session, location, su_vars, cp_vars, acc_vars, pp_vars,
                   runs, id_seq, db_last>>

NextAccount ==
    \/ Account_Mount
    \/ \E n \in NetOutcomes : Account_ProfileReturn(n)
    \/ \E n \in NetOutcomes : Account_PersonaReturn(n)
    \/ \E v \in Visibilities : setVisibility(v)
    \/ handleVisibilitySave
    \/ \E n \in NetOutcomes : Account_UpdateReturn(n)
    \/ Tick

SpecAccount == InitAccount /\ [][NextAccount]_vars

----------------------------------------------------------------------------
(* The public listing over a store that already holds personas             *)

\* a row whose agent_id column is NULL
AgentlessPersona(id, userId, isPublic) ==
    PersonaRow(id, userId, isPublic, <<"s", "k">>, NULL, NULL, CP_avatarUrl(userId))

\* a row of the second agent
OtherPersona(id, userId, isPublic) ==
    PersonaRow(id, userId, isPublic, <<"s", "k">>, "xyz789",
               CP_conversationLink("xyz789"), CP_avatarUrl(userId))

ListingRows ==
    {SeededPersona(1, "u1", TRUE), AgentlessPersona(2, "u2", TRUE),
     OtherPersona(3, "u2", FALSE), AgentlessPersona(4, "u1", FALSE),
     OtherPersona(5, "u2", TRUE)}

InitListing ==
    /\ now = 0
    /\ identities = {[id |-> "u1", email |-> EmailA, password |-> "12345678"],
                     [id |-> "u2", email |-> EmailC, password |-> "12345678"]}
    /\ profiles = [i \in {"u1", "u2"} |-> NewProfile("Ada", "Byron")]
    /\ personas \in SUBSET ListingRows
    /\ id_seq = 5
    /\ session \in {NULL, "u1"}
    /\ location = "/personas"
    /\ su_pc = "idle"
    /\ su = SU_Blank
    /\ su_isLoading = FALSE
    /\ su_errors = <<>>
    /\ su_toast = NoToast
    /\ su_calls = <<>>
    /\ cp_pc = "idle"
    /\ cp = CP_Blank
    /\ cp_isLoading = FALSE
    /\ cp_output = [status |-> "idle", message |-> ""]
    /\ cp_toast = NoToast
    /\ cp_calls = <<>>
    /\ cp_timer = FALSE
    /\ runs = 0
    /\ acc_pc = "unmounted"
    /\ acc_profile = <<>>
    /\ acc_persona = <<>>
    /\ acc_loading = TRUE
    /\ acc_visibility = "private"
    /\ acc_saving = FALSE
    /\ acc_toast = NoToast
    /\ acc_req = NoRequest
    /\ acc_log = <<>>
    /\ pp_pc = "unmounted"
    /\ pp_personas = <<>>
    /\ pp_loading = TRUE
    /\ pp_toast = NoToast
    /\ pp_reply = NoReply
    /\ db_last = NoDbRequest

NextListing ==
    \/ PP_Mount
    \/ \E n \in NetOutcomes : PP_FetchReturn(n)
    \/ \E t \in {"/", "/personas", "/signin", "/signup"} : FollowLink(t)

SpecListing == InitListing /\ [][NextListing]_vars

----------------------------------------------------------------------------
(* Requests of arbitrary store clients, decided by the row policies        *)

MaxIds == 2

Callers == {NULL, "u1", "u2"}

DuplicateKey == "duplicate key value violates unique constraint"

DbRequest(op, table, uid) ==
    [NoDbRequest EXCEPT !.op = op, !.table = table, !.uid = uid]

StoreFrame == <<session, location, su_vars, cp_vars, acc_vars, pp_vars, runs, now>>

\* SELECT * FROM personas as uid
Db_SelectPersonas(uid) ==
    /\ db_last' = [DbRequest("select", "personas", uid) EXCEPT
                      !.rows = {r \in personas : PersonaSelectPolicy(uid, r)}]
    /\ UNCHANGED <<backend, id_seq, StoreFrame>>

\* INSERT INTO personas (user_id, is_public, ...) as uid
Db_InsertPersona(uid, userId, isPublic) ==
    /\ id_seq < MaxIds
    /\ LET row == SeededPersona(NextPersonaId, userId, isPublic)
           error == IF PersonaInsertPolicy(uid, row) THEN NULL ELSE RlsViolation
       IN /\ personas' = IF error = NULL THEN personas \cup {row} ELSE personas
          /\ id_seq' = IF error = NULL THEN id_seq + 1 ELSE id_seq
          /\ db_last' = [DbRequest("insert", "personas", uid) EXCEPT
                            !.id = row.id, !.error = error]
    /\ UNCHANGED <<identities, profiles, StoreFrame>>

\* UPDATE personas SET <column> = <value> WHERE id = <id> as uid, for the
\* columns is_public and user_id.  A FOR UPDATE policy without WITH CHECK
\* applies its USING expression to the new row as well.
Db_UpdatePersona(uid, id, column, value) ==
    /\ column \in {"is_public", "user_id"}
    /\ LET matched == {r \in personas : r.id = id /\ PersonaUpdatePolicy(uid, r)}
           new(r) == update_updated_at_column([r EXCEPT ![column] = value])
           error == IF \A r \in matched : PersonaUpdatePolicy(uid, new(r))
                    THEN NULL ELSE RlsViolation
       IN /\ personas' = IF error = NULL
                         THEN (personas \ matched) \cup {new(r) : r \in matched}
                         ELSE personas
          /\ db_last' = [DbRequest("update", "personas", uid) EXCEPT
                            !.id = id, !.error = error]
    /\ UNCHANGED <<identities, profiles, id_seq, StoreFrame>>

\* DELETE FROM personas WHERE id = <id> as uid
Db_DeletePersona(uid, id) ==
    /\ personas' = {r \in personas : ~(r.id = id /\ PersonaDeletePolicy(uid, r))}
    /\ db_last' = [DbRequest("delete", "personas", uid) EXCEPT !.id = id]
    /\ UNCHANGED <<identities, profiles, id_seq, StoreFrame>>

\* SELECT * FROM profiles as uid
Db_SelectProfiles(uid) ==
    /\ db_last' = [DbRequest("select", "profiles", uid) EXCEPT
                      !.ids = {i \in DOMAIN profiles : ProfileSelectPolicy(uid, i)}]
    /\ UNCHANGED <<backend, id_seq, StoreFrame>>

\* INSERT INTO profiles (id, first_name, last_name) as uid
Db_InsertProfile(uid, id) ==
    /\ id \in {i.id : i \in identities}
    /\ LET error == IF ~ProfileInsertPolicy(uid, id) THEN RlsViolation
                    ELSE IF id \in DOMAIN profiles THEN DuplicateKey
                    ELSE NULL
       IN /\ profiles' = IF error = NULL
                         THEN [i \in DOMAIN profiles \cup {id} |->
                                 IF i = id THEN NewProfile("Ada", "Byron") ELSE profiles[i]]
                         ELSE profiles
          /\ db_last' = [DbRequest("insert", "profiles", uid) EXCEPT
                            !.pid = id, !.error = error]
    /\ UNCHANGED <<identities, personas, id_seq, StoreFrame>>

\* UPDATE profiles SET elevenlabs_agent_id = ..., elevenlabs_agent_link = ...
\* WHERE id = <id> as uid
Db_UpdateProfile(uid, id, agentId) ==
    /\ profiles' = ProfilesAfterUpdate(uid, id, agentId, CP_conversationLink(agentId))
    /\ db_last' = [DbRequest("update", "profiles", uid) EXCEPT !.pid = id]
    /\ UNCHANGED <<identities, personas, id_seq, StoreFrame>>

\* DELETE FROM profiles WHERE id = <id> as uid: row security is enabled and
\* no policy is defined FOR DELETE, so no row is visible to the command
Db_DeleteProfile(uid, id) ==
    /\ db_last' = [DbRequest("delete", "profiles", uid) EXCEPT !.pid = id]
    /\ UNCHANGED <<backend, id_seq, StoreFrame>>

InitStore ==
    /\ identities = {[id |-> "u1", email |-> EmailA, password |-> "12345678"],
                     [id |-> "u2", email |-> EmailC, password |-> "12345678"]}
    /\ \E ids \in {{"u1"}, {"u1", "u2"}} :
          profiles = [i \in ids |-> NewProfile("Ada", "Byron")]
    /\ personas = {}
    /\ session = NULL
    /\ location = "/"
    /\ su_pc = "idle"
    /\ su = SU_Blank
    /\ su_isLoading = FALSE
    /\ su_errors = <<>>
    /\ su_toast = NoToast
    /\ su_calls = <<>>
    /\ cp_pc = "idle"
    /\ cp = CP_Blank
    /\ cp_isLoading = FALSE
    /\ cp_output = [status |-> "idle", message |-> ""]
    /\ cp_toast = NoToast
    /\ cp_calls = <<>>
    /\ cp_timer = FALSE
    /\ runs = 0
    /\ ViewsInit

NextStore ==
    \/ \E uid \in Callers : Db_SelectPersonas(uid)
    \/ \E uid \in Callers, u \in {"u1", "u2"}, b \in BOOLEAN : Db_InsertPersona(uid, u, b)
    \/ \E uid \in Callers, id \in 1..MaxIds, b \in BOOLEAN :
          Db_UpdatePersona(uid, id, "is_public", b)
    \/ \E uid \in Callers, id \in 1..MaxIds, u \in {"u1", "u2"} :
          Db_UpdatePersona(uid, id, "user_id", u)
    \/ \E uid \in Callers, id \in 1..MaxIds : Db_DeletePersona(uid, id)
    \/ \E uid \in Callers : Db_SelectProfiles(uid)
    \/ \E uid \in Callers, id \in {"u1", "u2"} : Db_InsertProfile(uid, id)
    \/ \E uid \in Callers, id \in {"u1", "u2"}, a \in AgentIds : Db_UpdateProfile(uid, id, a)
    \/ \E uid \in Callers, id \in {"u1", "u2"} : Db_DeleteProfile(uid, id)

SpecStore == InitStore /\ [][NextStore]_vars

TypeOK ==
    /\ su_pc \in {"idle", "signUp", "agent", "profile", "insert", "done", "rejected"}
    /\ cp_pc \in {"idle", "profileRead", "agent", "insert", "profileUpdate", "done"}
    /\ session \in {NULL} \cup {i.id : i \in identities}
    /\ DOMAIN profiles = {i.id : i \in identities}

----------------------------------------------------------------------------
(* Local validation (checked under SpecForms) *)

SU_Submitted == su_pc # "idle"
CP_Submitted == cp_pc # "idle"

SU_NoRemoteEffect ==
    /\ su_pc = "done"
    /\ su_calls = <<>>
    /\ ~su_isLoading
    /\ identities = {} /\ profiles = <<>> /\ personas = {}

\* C1: a sign-up submission that violates any local constraint (email not
\* email-shaped, password shorter than 8, empty first or last name, empty
\* resume text, empty API key) ends without issuing any remote call.
C1_LocalViolationNoRemoteCall ==
    (/\ SU_Submitted
     /\ \/ ~IsEmail(su.email)
        \/ Len(su.password) < 8
        \/ su.firstName = ""
        \/ su.lastName = ""
        \/ su.resumeText = <<>>
        \/ su.apiKey = <<>>)
    => SU_NoRemoteEffect

\* a submission whose only defect is the empty API key has been rejected
C1_Witness ==
    /\ su_pc = "done"
    /\ su.apiKey = <<>>
    /\ su.email = EmailA /\ su.password = "12345678"
    /\ su.firstName = "Ada" /\ su.lastName = "Byron"
    /\ su.resumeText = <<" ", "c", "v", " ">>
    /\ su_toast.title = "API Key Required"
    /\ su_calls = <<>>

\* C2: in both entry points a resume text whose trimmed value is empty is
\* rejected before any network call.
C2_EmptyResumeRejected ==
    /\ (SU_Submitted /\ Trim(su.resumeText) = <<>>)
         => /\ SU_NoRemoteEffect
            /\ su_errors # <<>> \/ su_toast.title = "Resume Required"
    /\ (CP_Submitted /\ Trim(cp.resumeText) = <<>>)
         => /\ cp_pc = "done"
            /\ cp_calls = <<>>
            /\ ~cp_isLoading
            /\ cp_toast.title = "Resume Required"
            /\ personas = {}
            /\ \A i \in DOMAIN profiles : profiles[i].elevenlabs_agent_id = NULL

\* a whitespace-only resume has been rejected by the create-persona form
C2_Witness ==
    /\ cp_pc = "done"
    /\ cp.resumeText = <<" ", "\n">>
    /\ cp.apiKey = <<"s", "k">>
    /\ cp_toast.title = "Resume Required"
    /\ cp_calls = <<>>

\* C3: a password shorter than 8 characters fails validation with the
\* password message recorded under the password field, and identity
\* creation is not called, whatever the other fields contain.
C3_ShortPasswordRejected ==
    (SU_Submitted /\ Len(su.password) < 8)
    => /\ "password" \in DOMAIN su_errors
       /\ su_errors["password"] = "Password must be at least 8 characters"
       /\ \A i \in 1..Len(su_calls) : su_calls[i] # "signUp"
       /\ su_pc = "done"
       /\ identities = {}

\* a 7-character password is the only defect of a rejected submission
C3_Witness ==
    /\ su_pc = "done"
    /\ Len(su.password) = 7
    /\ DOMAIN su_errors = {"password"}
    /\ su_calls = <<>>

----------------------------------------------------------------------------
(* The sign-up workflow (checked under Spec) *)

SU_IdentityStored ==
    [id |-> su.user, email |-> su.email, password |-> su.password] \in identities

\* C4: when identity creation returns an error the sign-up submission ends
\* there: no agent provisioning, no profile update and no persona insert
\* follow, and the step navigates nowhere.
C4_State ==
    su.authError # NULL
    => /\ su_pc = "done"
       /\ su_calls = <<"signUp">>
       /\ su_toast.title = "Sign up failed"
       /\ su_toast.variant = "destructive"
       /\ ~su_isLoading

C4_Step ==
    (su.authError = NULL /\ su'.authError # NULL)
    => UNCHANGED <<location, session, identities, profiles, personas>>

C4_AuthErrorAborts == []C4_State /\ [][C4_Step]_vars

\* identity creation failed for a reason other than a duplicate
C4_Witness ==
    /\ su_pc = "done"
    /\ su.authError = "Signup is disabled"
    /\ location = "/signup"

\* C5: a duplicate-account failure is reported with the dedicated "already
\* exists" message; any other identity-creation failure is reported with the
\* provider's message, which differs from it.
C5_DuplicateMessage ==
    /\ su.authError = "User already registered"
       => /\ su_toast.title = "Sign up failed"
          /\ su_toast.description =
                "An account with this email already exists. Please sign in."
    /\ su.authError \notin {NULL, "User already registered"}
       => /\ su_toast.title = "Sign up failed"
          /\ su_toast.description = su.authError
          /\ su_toast.description #
                "An account with this email already exists. Please sign in."

\* a second sign-up with an email that already has an identity
C5_Witness ==
    /\ su_pc = "done"
    /\ su.authError = "User already registered"
    /\ su.email \in IdentityEmails

\* C6: an identity that is created but still needs external confirmation
\* stops the sign-up with the pending-confirmation notice and no further
\* remote call.
C6_PendingConfirmationStops ==
    su.created.kind \in {"unconfirmed_user", "unconfirmed_null"}
    => /\ su_pc = "done"
       /\ su_toast.title = "Check your email"
       /\ su_calls = <<"signUp">>

\* C7: when agent provisioning fails after identity creation, the error is
\* reported, neither the profile update nor the persona insert is issued,
\* and the identity stays: identities are never deleted.
C7_State ==
    /\ su.agentError # NULL
       => /\ su_pc = "done"
          /\ su_toast.title = "Error Creating Persona"
          /\ su_toast.variant = "destructive"
          /\ su_calls = <<"signUp", "create-agent">>
          /\ su.inserted = 0
          /\ SU_IdentityStored
    /\ cp.agentError # NULL
       => /\ cp_pc = "done"
          /\ cp_output.status = "error"
          /\ cp_toast.title = "Error"
          /\ cp_calls = <<"profiles.select", "create-agent">>
          /\ cp.inserted = 0
          /\ \E i \in identities : i.id = cp.user

C7_Step ==
    /\ identities \subseteq identities'
    /\ (\/ su.agentError = NULL /\ su'.agentError # NULL
        \/ cp.agentError = NULL /\ cp'.agentError # NULL)
       => UNCHANGED <<identities, profiles, personas>>

C7_AgentFailureKeepsIdentity == []C7_State /\ [][C7_Step]_vars

\* the identity exists with the submitted credentials and owns no persona
C7_Witness ==
    /\ su_pc = "done"
    /\ su.agentError # NULL
    /\ SU_IdentityStored
    /\ \A r \in personas : r.user_id # su.user

\* C8: every persona row carries the conversation link built from its
\* agent_id and the avatar URL built from its owner's id, whichever entry
\* point inserted it.
C8_DerivedLinks ==
    \A r \in personas :
       /\ r.conversation_link =
             "https://elevenlabs.io/app/talk-to?agent_id=" \o r.agent_id
       /\ r.avatar_url =
             "https://api.dicebear.com/7.x/pixel-art/svg?seed=" \o r.user_id
                \o "&scale=100"
       /\ \A q \in personas :
             (q.agent_id = r.agent_id /\ q.user_id = r.user_id)
             => (q.conversation_link = r.conversation_link
                 /\ q.avatar_url = r.avatar_url)

\* sign-up and create-persona have each inserted a row for agent abc123 of
\* identity u1
C8_Witness ==
    \E r, q \in personas :
       /\ r.id = su.inserted /\ q.id = cp.inserted
       /\ r.agent_id = "abc123" /\ r.user_id = "u1"
       /\ q.agent_id = "abc123" /\ q.user_id = "u1"
       /\ r.conversation_link = "https://elevenlabs.io/app/talk-to?agent_id=abc123"
       /\ q.avatar_url = "https://api.dicebear.com/7.x/pixel-art/svg?seed=u1&scale=100"

\* C9: a failed profile update does not abort the sign-up: the persona
\* insert is issued next, and success or error is reported according to the
\* insert alone.
C9_ProfileUpdateBestEffort ==
    /\ su.profileUpdateError # NULL
       => /\ su_pc \in {"insert", "done"}
          /\ su_calls = <<"signUp", "create-agent", "profiles.update", "personas.insert">>
    /\ (su_pc = "done" /\ Len(su_calls) = 4)
       => /\ su_toast.title = "Account created!" <=> su.insertError = NULL
          /\ su_toast.title = "Error Creating Persona" <=> su.insertError # NULL
          /\ su.insertError # NULL => su_toast.description = su.insertError

\* the profile update failed and the sign-up still reported success
C9_Witness ==
    /\ su_pc = "done"
    /\ su.profileUpdateError # NULL
    /\ su.inserted # 0
    /\ su_toast.title = "Account created!"

\* C10 as stated: after a failed persona insert, in either entry point, the
\* error is reported, the identity exists and its profile carries the agent
\* id and agent link of this submission.
C10_ProfileCarriesAgent ==
    /\ (su_pc = "done" /\ su.insertError # NULL)
       => /\ su_toast.title = "Error Creating Persona"
          /\ SU_IdentityStored
          /\ profiles[su.user].elevenlabs_agent_id = su.agent_id
          /\ profiles[su.user].elevenlabs_agent_link = su.conversationLink
    /\ (cp_pc = "done" /\ cp.insertError # NULL)
       => /\ cp_output.status = "error"
          /\ \E i \in identities : i.id = cp.user
          /\ profiles[cp.user].elevenlabs_agent_id = cp.agent_id
          /\ profiles[cp.user].elevenlabs_agent_link = cp.conversationLink

\* C10 amended: after a failed persona insert the error is reported, the
\* identity exists, and the failing step changes no identity, profile or
\* persona row; sign-up has issued its profile update before the insert,
\* create-persona issues none.
C10_State ==
    /\ su.insertError # NULL
       => /\ su_pc = "done"
          /\ su_toast.title = "Error Creating Persona"
          /\ su_toast.description = su.insertError
          /\ su_calls = <<"signUp", "create-agent", "profiles.update", "personas.insert">>
          /\ SU_IdentityStored
          /\ su.user \in DOMAIN profiles
    /\ cp.insertError # NULL
       => /\ cp_pc = "done"
          /\ cp_output = [status |-> "error", message |-> cp.insertError]
          /\ cp_toast.title = "Error"
          /\ cp_calls = <<"profiles.select", "create-agent", "personas.insert">>
          /\ \E i \in identities : i.id = cp.user
          /\ cp.user \in DOMAIN profiles

C10_Step ==
    (\/ su.insertError = NULL /\ su'.insertError # NULL
     \/ cp.insertError = NULL /\ cp'.insertError # NULL)
    => UNCHANGED <<identities, profiles, personas>>

C10_NothingRolledBack == []C10_State /\ [][C10_Step]_vars

\* a sign-up whose profile update took effect and whose insert then failed
C10_Witness ==
    /\ su_pc = "done"
    /\ su.insertError # NULL
    /\ su.agent_id # NULL
    /\ profiles[su.user].elevenlabs_agent_id = su.agent_id
    /\ profiles[su.user].elevenlabs_agent_link = su.conversationLink

----------------------------------------------------------------------------
(* Outcome of a submission *)

\* C11: a submission reports success, and sends the user to the account
\* view, exactly when its persona insert succeeded: sign-up reports and
\* navigates in the step in which the insert returns; create-persona reports
\* once its last call has returned and arms the timer that navigates; a
\* submission that failed at identity creation, agent provisioning or the
\* insert reports no success and does not navigate to the account view.
C11_State ==
    /\ su.inserted # 0 <=> su_toast.title = "Account created!"
    /\ su.inserted # 0
       => /\ su_pc = "done"
          /\ su.authError = NULL /\ su.agentError = NULL /\ su.insertError = NULL
          /\ \E r \in personas : r.id = su.inserted /\ r.user_id = su.user
    /\ (su_pc = "done" /\ su_calls # <<>> /\ su.inserted = 0)
       => su_toast.title \in {"Sign up failed", "Check your email", "Error Creating Persona"}
    /\ cp_output.status = "success" <=> (cp_pc = "done" /\ cp.inserted # 0)
    /\ cp_toast.title = "Success!" <=> cp_output.status = "success"
    /\ cp.inserted # 0
       => /\ cp_pc \in {"profileUpdate", "done"}
          /\ cp.agentError = NULL /\ cp.insertError = NULL
          /\ \E r \in personas : r.id = cp.inserted /\ r.user_id = cp.user
    /\ (cp_pc = "done" /\ cp_calls # <<>> /\ cp.inserted = 0)
       => cp_output.status = "error"

C11_Step ==
    /\ (su.inserted = 0 /\ su'.inserted # 0) => location' = "/account"
    /\ (su_pc # "done" /\ su_pc' = "done" /\ su'.inserted = 0)
       => (location' = "/account" => location = "/account")
    /\ (cp_output.status # "success" /\ cp_output'.status = "success") => cp_timer'
    /\ (~cp_timer /\ cp_timer') => cp'.inserted # 0
    /\ (cp_timer /\ ~cp_timer') => location' = "/account"

C11_SuccessIffInserted == []C11_State /\ [][C11_Step]_vars

\* create-persona reported success and its timer has brought the user to
\* the account view
C11_Witness ==
    /\ cp_pc = "done"
    /\ cp.inserted # 0
    /\ cp_output.status = "success"
    /\ ~cp_timer
    /\ location = "/account"

\* C12: when the profile read by create-persona lacks a first or a last
\* name, or cannot be read, the submission ends with the descriptive error
\* and issues neither the agent call nor the insert nor the profile update.
C12_IncompleteProfileStops ==
    (/\ cp_pc \notin {"idle", "profileRead"}
     /\ cp_calls # <<>>
     /\ \/ cp.profile = <<>>
        \/ cp.profile[1].first_name \in {NULL, ""}
        \/ cp.profile[1].last_name \in {NULL, ""})
    => /\ cp_pc = "done"
       /\ cp_calls = <<"profiles.select">>
       /\ cp_output = [status |-> "error",
                       message |-> "Please ensure your profile has a first and last name."]
       /\ cp_toast = Toast("Error",
                           "Please ensure your profile has a first and last name.",
                           "destructive")
       /\ ~cp_isLoading
       /\ personas = {}
       /\ \A i \in DOMAIN profiles : profiles[i].elevenlabs_agent_id = NULL

\* the profile was read and has a first name but no last name
C12_Witness ==
    /\ cp_pc = "done"
    /\ cp.profile # <<>>
    /\ cp.profile[1].first_name = "Ada"
    /\ cp.profile[1].last_name = NULL
    /\ cp_calls = <<"profiles.select">>
    /\ cp_output.status = "error"

----------------------------------------------------------------------------
(* Visibility toggle (checked under SpecAccount) *)

\* C13: the displayed persona.is_public changes only in the step in which
\* the update returns without error, and then to the value that was sent;
\* when the update returns an error the displayed persona is kept, the
\* error toast is shown, saving is cleared and Save can be pressed again.
C13_State ==
    (acc_pc = "ready" /\ acc_req.error # NULL)
    => /\ acc_toast = Toast("Error", "Could not update visibility.", "destructive")
       /\ ~acc_saving
       /\ ENABLED handleVisibilitySave

C13_Step ==
    /\ (/\ acc_persona # <<>>
        /\ acc_persona' # <<>>
        /\ acc_persona'[1].is_public # acc_persona[1].is_public)
       => /\ acc_pc = "saving" /\ acc_pc' = "ready"
          /\ acc_req'.error = NULL
          /\ acc_toast'.title = "Saved"
          /\ acc_persona'[1].is_public = acc_req.is_public
    /\ (acc_pc = "saving" /\ acc_pc' = "ready" /\ acc_req'.error # NULL)
       => /\ acc_persona' = acc_persona
          /\ acc_toast'.title = "Error"

C13_DisplayChangesAfterAck == []C13_State /\ [][C13_Step]_vars

\* the user chose the other value, the save failed, and the view still
\* displays the value it had
C13_Witness ==
    /\ acc_pc = "ready"
    /\ acc_req.error # NULL
    /\ acc_persona # <<>>
    /\ acc_persona[1].is_public # acc_req.is_public
    /\ acc_toast.title = "Error"

\* an acknowledged save of the value the row already stores
SameValueSaveStep ==
    /\ acc_pc = "saving" /\ acc_pc' = "ready"
    /\ acc_req'.error = NULL
    /\ StoredIsPublic(acc_req.id) = {acc_req.is_public}

\* C14 as stated: a save of the value already stored leaves the stored
\* persona row unchanged in every column.
C14_SameValueSaveIsNoOp ==
    [][SameValueSaveStep => personas' = personas]_vars

\* the row without its updated_at column
WithoutUpdatedAt(r) == [c \in DOMAIN r \ {"updated_at"} |-> r[c]]

\* C14 amended: a save, by the owner, of the value already stored leaves
\* every column of the row other than updated_at unchanged and sets
\* updated_at to the time of the save; every other row is untouched.
\* Repeating the save yields the same row up to updated_at.
C14_SameValueSaveTouchesOnlyUpdatedAt ==
    [][(/\ SameValueSaveStep
        /\ \E r \in personas : r.id = acc_req.id /\ r.user_id = acc_req.uid) =>
         /\ {WithoutUpdatedAt(r) : r \in personas'} = {WithoutUpdatedAt(r) : r \in personas}
         /\ \A r \in personas' : IF r.id = acc_req.id THEN r.updated_at = now
                                 ELSE r \in personas]_vars

\* the same value has been saved twice in a row and the row's updated_at
\* has moved past its created_at
C14_Witness ==
    /\ Len(acc_log) = 2
    /\ acc_log[1].value = acc_log[2].value
    /\ acc_log[1].before = {acc_log[1].value}
    /\ acc_log[2].after = {acc_log[2].value}
    /\ \E r \in personas : r.id = acc_req.id /\ r.updated_at > r.created_at

\* C15: two successive acknowledged saves by the owner that flip the stored
\* value and flip it back are both applied and leave the stored is_public
\* equal to its original value.
C15_FlipAndFlipBack ==
    (/\ Len(acc_log) = 2
     /\ acc_log[1].owned /\ acc_log[2].owned
     /\ \E b \in BOOLEAN : /\ acc_log[1].before = {b}
                           /\ acc_log[1].value = ~b
                           /\ acc_log[2].value = b)
    => /\ acc_log[1].after = {acc_log[1].value}
       /\ acc_log[2].before = acc_log[1].after
       /\ acc_log[2].after = acc_log[1].before
       /\ StoredIsPublic(acc_req.id) = acc_log[1].before

\* public -> private -> public, both saves acknowledged
C15_Witness ==
    /\ Len(acc_log) = 2
    /\ acc_log[1].before = {TRUE}
    /\ acc_log[1].value = FALSE
    /\ acc_log[2].value = TRUE
    /\ StoredIsPublic(acc_req.id) = {TRUE}
    /\ acc_persona[1].is_public = TRUE

----------------------------------------------------------------------------
(* Public listing (checked under SpecListing) *)

\* the stored rows that are public and have an agent id
ListedRows == {r \in personas : r.is_public = TRUE /\ r.agent_id # NULL}

\* C16: after a successful fetch the displayed list holds exactly the rows
\* with is_public = true and a non-null agent id, each once, with the row's
\* avatar and agent id and the conversation link derived from the agent id;
\* private rows and rows without an agent id are absent and no error is shown.
C16_ListingShowsPublicWithAgent ==
    (pp_pc = "ready" /\ pp_reply.error = NULL)
    => /\ {pp_personas[i].id : i \in 1..Len(pp_personas)} = {r.id : r \in ListedRows}
       /\ Len(pp_personas) = Cardinality(ListedRows)
       /\ \A i \in 1..Len(pp_personas) : \E r \in ListedRows :
             /\ pp_personas[i].id = r.id
             /\ pp_personas[i].agent_id = r.agent_id
             /\ pp_personas[i].avatar_url = r.avatar_url
             /\ pp_personas[i].conversation_link =
                   "https://elevenlabs.io/app/talk-to?agent_id=" \o r.agent_id
       /\ pp_toast = NoToast
       /\ ~pp_loading

\* two rows came back, one of them without an agent id, and one entry is
\* displayed
C16_Witness ==
    /\ pp_pc = "ready"
    /\ pp_reply.error = NULL
    /\ Cardinality({r \in personas : r.is_public = TRUE}) = 2
    /\ \E r \in personas : r.is_public = TRUE /\ r.agent_id = NULL
    /\ Len(pp_personas) = 1
    /\ pp_personas[1].agent_id = "abc123"

ListingFields == {"id", "avatar_url", "agent_id", "conversation_link"}

\* a text that is x or is built from x by one of the URL templates
CarriesText(text, x) ==
    \/ text = x
    \/ text = "https://api.dicebear.com/7.x/pixel-art/svg?seed=" \o x \o "&scale=100"
    \/ text = "https://elevenlabs.io/app/talk-to?agent_id=" \o x

\* C17 as stated: the listing holds only the four fields, the query returns
\* only id, avatar_url and agent_id, and no text held by the listing carries
\* the identity id of a persona's owner.
C17_NoOwnerIdInListing ==
    /\ pp_reply.columns \subseteq {"id", "avatar_url", "agent_id"}
    /\ \A i \in 1..Len(pp_personas) :
          /\ DOMAIN pp_personas[i] = ListingFields
          /\ \A r \in personas, c \in {"avatar_url", "agent_id", "conversation_link"} :
                ~CarriesText(pp_personas[i][c], r.user_id)

\* C17 amended: the query returns only id, avatar_url and agent_id, and each
\* entry holds exactly id, avatar_url, agent_id and conversation_link, equal
\* to the same-named columns of a public row and to the link derived from
\* agent_id; no user_id or elevenlabs_api_key field exists in the listing.
\* The owner's id is held only inside avatar_url.
C17_ListingHoldsPublicColumns ==
    /\ pp_reply.columns \subseteq {"id", "avatar_url", "agent_id"}
    /\ \A i \in 1..Len(pp_personas) :
          /\ DOMAIN pp_personas[i] = ListingFields
          /\ \E r \in personas :
                /\ r.is_public = TRUE
                /\ pp_personas[i].id = r.id
                /\ pp_personas[i].avatar_url = r.avatar_url
                /\ pp_personas[i].agent_id = r.agent_id
                /\ pp_personas[i].conversation_link =
                      "https://elevenlabs.io/app/talk-to?agent_id=" \o r.agent_id
          /\ \A r \in personas :
                /\ ~CarriesText(pp_personas[i].agent_id, r.user_id)
                /\ ~CarriesText(pp_personas[i].conversation_link, r.user_id)

\* the listing displays the persona of u1, whose avatar URL is seeded with u1
C17_Witness ==
    /\ pp_pc = "ready"
    /\ Len(pp_personas) >= 1
    /\ pp_reply.columns = {"id", "avatar_url", "agent_id"}
    /\ \E i \in 1..Len(pp_personas), r \in personas :
          /\ r.id = pp_personas[i].id
          /\ r.user_id = "u1"
          /\ pp_personas[i].avatar_url =
                "https://api.dicebear.com/7.x/pixel-art/svg?seed=u1&scale=100"

\* C18: when the fetch fails the view shows an empty list and the error
\* toast and is no longer loading; a view whose fetch has returned is never
\* loading.
C18_FetchErrorDegrades ==
    /\ (pp_pc = "ready" /\ pp_reply.error # NULL)
       => /\ pp_personas = <<>>
          /\ pp_toast = Toast("Error", "Could not fetch public personas.", "destructive")
          /\ ~pp_loading
    /\ pp_pc = "ready" => ~pp_loading
    /\ pp_pc # "ready" => pp_personas = <<>>

\* the store holds a public persona with an agent and the fetch failed
C18_Witness ==
    /\ pp_pc = "ready"
    /\ pp_reply.error = "Failed to fetch"
    /\ ListedRows # {}
    /\ pp_personas = <<>>
    /\ pp_toast.title = "Error"

----------------------------------------------------------------------------
(* Row policies (checked under SpecStore) *)

\* C19: a caller reads a persona row only if it owns the row or the row is
\* public; a persona row is added, changed or removed only by a request of
\* its owner, and a row written by a request is owned by the caller; so a
\* row outlives, unchanged, every request of a non-owner.
C19_State ==
    (db_last.op = "select" /\ db_last.table = "personas")
    => /\ \A r \in db_last.rows : r.user_id = db_last.uid \/ r.is_public = TRUE
       /\ db_last.rows \subseteq personas

C19_Step ==
    /\ \A r \in personas :
          r \notin personas'
          => /\ db_last'.uid = r.user_id
             /\ db_last'.table = "personas"
             /\ db_last'.op \in {"update", "delete"}
    /\ \A r \in personas' :
          r \notin personas
          => /\ db_last'.uid = r.user_id
             /\ db_last'.table = "personas"
             /\ db_last'.op \in {"insert", "update"}

C19_PersonaPolicies == []C19_State /\ [][C19_Step]_vars

\* u2 asked to delete the private persona of u1 and the row is still there
C19_Witness ==
    /\ db_last.op = "delete"
    /\ db_last.table = "personas"
    /\ db_last.uid = "u2"
    /\ \E r \in personas : r.id = db_last.id /\ r.user_id = "u1" /\ r.is_public = FALSE

\* C20: a caller reads only the profile row whose id is its own identity id;
\* a profile row is added or changed only by a request of the identity whose
\* id is the row's id, and no request removes a profile row.
C20_State ==
    (db_last.op = "select" /\ db_last.table = "profiles")
    => /\ db_last.ids \subseteq {db_last.uid}
       /\ db_last.uid = NULL => db_last.ids = {}

C20_Step ==
    /\ DOMAIN profiles \subseteq DOMAIN profiles'
    /\ \A i \in DOMAIN profiles' :
          (i \notin DOMAIN profiles \/ profiles'[i] # profiles[i])
          => /\ db_last'.uid = i
             /\ db_last'.table = "profiles"
             /\ db_last'.op \in {"insert", "update"}

C20_ProfilePolicies == []C20_State /\ [][C20_Step]_vars

\* u2 asked to update the profile of u1, no error came back and the profile
\* of u1 is as it was created
C20_Witness ==
    /\ db_last.op = "update"
    /\ db_last.table = "profiles"
    /\ db_last.uid = "u2"
    /\ db_last.pid = "u1"
    /\ db_last.error = NULL
    /\ profiles["u1"] = NewProfile("Ada", "Byron")
    /\ "u2" \in DOMAIN profiles
    /\ profiles["u2"].elevenlabs_agent_id # NULL

----------------------------------------------------------------------------
(* What a non-owner can read (checked under SpecStore) *)

\* the persona columns that may cross the ownership boundary
PublicSafeFields ==
    {"id", "is_public", "agent_id", "conversation_link", "avatar_url",
     "created_at", "updated_at"}

\* C21: a row of a persona returned to a caller who does not own it is
\* public and carries public-safe columns only; the elevenlabs_api_key
\* column is returned to nobody but the owner.
C21_ApiKeyOnlyForOwner ==
    (db_last.op = "select" /\ db_last.table = "personas")
    => \A r \in db_last.rows :
          r.user_id # db_last.uid
          => /\ r.is_public = TRUE
             /\ "elevenlabs_api_key" \notin DOMAIN r
             /\ DOMAIN r \subseteq PublicSafeFields \cup {"user_id"}

----------------------------------------------------------------------------
(* The workflows together with the account view: a visitor signs up, is   *)
(* taken to the account view, and may follow its create-persona link       *)

\* {!persona ? ... <Link to="/create-persona">Create Persona</Link> ...}: the
\* offer is rendered once loading is over and no persona is held
Account_OffersCreatePersona ==
    /\ acc_pc = "ready"
    /\ ~acc_loading
    /\ acc_persona = <<>>

\* the visitor follows the create-persona link of the account view
Account_FollowCreatePersona ==
    /\ location = "/account"
    /\ session # NULL
    /\ Account_OffersCreatePersona
    /\ location' = "/create-persona"
    /\ SU_Unmount
    /\ CP_Unmount
    /\ Account_Unmount
    /\ PP_Unmount
    /\ UNCHANGED <<backend, session>>
    /\ UNCHANGED <<runs, now, id_seq, db_last>>

\* the sign-up forms of the journey: one visitor, either visibility
SU_JourneyForms ==
    {f \in SU_RunForms : f.email = EmailA /\ Trim(f.resumeText) # <<>>}

CP_JourneyForms ==
    {f \in CP_RunForms : f.apiKey = <<"s", "k">>}

NextJourney ==
    \/ \E f \in SU_JourneyForms : SU_Submit(f)
    \/ \E m \in {AlreadyRegistered} \cup OtherAuthErrors : SU_SignUpError(m)
    \/ \E k \in SignUpKinds : SU_SignUpCreated(k)
    \/ \E e \in RemoteErrors \cup {NULL}, a \in AgentIds \cup {NULL} : SU_AgentReturn(e, a)
    \/ \E n \in NetOutcomes : SU_ProfileUpdateReturn(n)
    \/ \E n \in NetOutcomes : SU_InsertReturn(n)
    \/ SU_SessionRedirect
    \/ \E f \in CP_JourneyForms : CP_Submit(f)
    \/ \E n \in NetOutcomes : CP_ProfileReturn(n)
    \/ \E e \in RemoteErrors \cup {NULL}, a \in AgentIds \cup {NULL} : CP_AgentReturn(e, a)
    \/ \E n \in NetOutcomes : CP_InsertReturn(n)
    \/ \E n \in NetOutcomes : CP_ProfileUpdateReturn(n)
    \/ CP_Timer
    \/ Account_Mount
    \/ \E n \in NetOutcomes : Account_ProfileReturn(n)
    \/ \E n \in NetOutcomes : Account_PersonaReturn(n)
    \/ Account_FollowCreatePersona
    \/ handleSignOut
    \/ \E t \in {"/", "/personas", "/account", "/signin", "/signup"} : FollowLink(t)

SpecJourney == Init /\ [][NextJourney]_vars

\* C22: every identity owns at most one persona row.
C22_AtMostOnePersona ==
    \A r, q \in personas : r.user_id = q.user_id => r.id = q.id

\* a sign-up submission between identity creation and the return of its
\* persona insert
SU_InFlightAfterIdentity ==
    /\ su_pc \in {"agent", "profile", "insert"}
    /\ su.user # NULL

\* C26: while the sign-up submission of an identity is between identity
\* creation and persona insert, the account view has not loaded for that
\* identity; in particular it is not showing "no persona yet" with the
\* create-persona offer.
C26_NoAccountViewDuringSignUp ==
    (SU_InFlightAfterIdentity /\ acc_req.uid = su.user)
    => ~Account_OffersCreatePersona

----------------------------------------------------------------------------
(* What a reported success guarantees (checked under Spec) *)

\* the profile of identity id carries this agent id and this link
ProfileLinked(p, id, agentId, link) ==
    /\ id \in DOMAIN p
    /\ p[id].elevenlabs_agent_id = agentId
    /\ p[id].elevenlabs_agent_link = link

C23_State ==
    /\ su_toast.title = "Account created!"
       => \E r \in personas :
             /\ r.id = su.inserted
             /\ r.user_id = su.user
             /\ r.agent_id = su.agent_id
             /\ r.agent_id \in AgentIds
             /\ r.conversation_link = "https://elevenlabs.io/app/talk-to?agent_id=" \o r.agent_id
    /\ cp_output.status = "success"
       => \E r \in personas :
             /\ r.id = cp.inserted
             /\ r.user_id = cp.user
             /\ r.agent_id = cp.agent_id
             /\ r.agent_id \in AgentIds
             /\ r.conversation_link = "https://elevenlabs.io/app/talk-to?agent_id=" \o r.agent_id
    /\ (su_pc = "done" /\ su_calls # <<>> /\ su_toast.title # "Account created!")
       => /\ su_toast.title \in {"Sign up failed", "Check your email", "Error Creating Persona"}
          /\ su.inserted = 0
    /\ (cp_pc = "done" /\ cp_calls # <<>> /\ cp_output.status # "success")
       => /\ cp_output.status = "error"
          /\ cp_toast.title = "Error"
          /\ cp_toast.variant = "destructive"

C23_Step ==
    /\ (su_pc = "profile" /\ su_pc' # "profile")
       => IF su'.profileUpdateError = NULL /\ session = su.user
          THEN /\ ProfileLinked(profiles', su.user, su.agent_id, su.conversationLink)
               /\ \A i \in DOMAIN profiles \ {su.user} : profiles'[i] = profiles[i]
          ELSE profiles' = profiles
    /\ (cp_pc = "profileUpdate" /\ cp_pc' # "profileUpdate")
       => /\ cp_output'.status = "success"
          /\ \/ profiles' = profiles
             \/ /\ ProfileLinked(profiles', cp.user, cp.agent_id, cp.conversationLink)
                /\ \A i \in DOMAIN profiles \ {cp.user} : profiles'[i] = profiles[i]
    /\ (\E i \in DOMAIN profiles : profiles'[i] # profiles[i])
       => \/ su_pc = "profile" /\ su_pc' # "profile"
          \/ cp_pc = "profileUpdate" /\ cp_pc' # "profileUpdate"

----------------------------------------------------------------------------
(* Order and number of the remote calls of a submission (checked under Spec) *)

Range(s) == {s[i] : i \in 1..Len(s)}

IsPrefix(s, t) == Len(s) <= Len(t) /\ \A i \in 1..Len(s) : s[i] = t[i]

\* the remote calls in the order in which the handlers issue them
SU_CallOrder == <<"signUp", "create-agent", "profiles.update", "personas.insert">>
CP_CallOrder == <<"profiles.select", "create-agent", "personas.insert", "profiles.update">>

\* C24: within one submission every remote step is issued at most once; the
\* list of issued calls only grows by one call that was not issued before,
\* and starts again only when the user submits the form; so there are never
\* more identities or generated personas than submissions.
C24_State ==
    /\ \A i, j \in 1..Len(su_calls) : su_calls[i] = su_calls[j] => i = j
    /\ \A i, j \in 1..Len(cp_calls) : cp_calls[i] = cp_calls[j] => i = j
    /\ Range(su_calls) \subseteq Range(SU_CallOrder)
    /\ Range(cp_calls) \subseteq Range(CP_CallOrder)
    /\ Cardinality(identities) <= runs
    /\ Cardinality(personas) <= runs
    /\ id_seq <= runs

C24_Step ==
    /\ su_calls' # su_calls
       => \/ \E c \in Range(SU_CallOrder) \ Range(su_calls) :
                su_pc # "done" /\ su_calls # <<>> /\ su_calls' = Append(su_calls, c)
          \/ su_pc = "idle" /\ su_calls = <<>> /\ su_calls' = <<"signUp">> /\ runs' = runs + 1
          \/ su_pc = "done" /\ su_pc' = "idle" /\ su_calls' = <<>>
    /\ cp_calls' # cp_calls
       => \/ \E c \in Range(CP_CallOrder) \ Range(cp_calls) :
                cp_pc # "done" /\ cp_calls # <<>> /\ cp_calls' = Append(cp_calls, c)
          \/ cp_pc = "idle" /\ cp_calls = <<>> /\ cp_calls' = <<"profiles.select">>
                /\ runs' = runs + 1
          \/ cp_pc = "done" /\ cp_pc' = "idle" /\ cp_calls' = <<>>
    /\ (su_pc = "done" /\ su_pc' # "idle") => su_calls' = su_calls
    /\ (cp_pc = "done" /\ cp_pc' # "idle") => cp_calls' = cp_calls

C24_NoAutomaticRetry == []C24_State /\ [][C24_Step]_vars

\* agent provisioning failed in a sign-up and in a later create-persona
\* submission of the same identity; each submission called it once
C24_Witness ==
    /\ su_pc = "done"
    /\ su.agentError # NULL
    /\ su_calls = <<"signUp", "create-agent">>
    /\ cp_pc = "done"
    /\ cp.agentError # NULL
    /\ cp_calls = <<"profiles.select", "create-agent">>
    /\ cp.user = su.user

\* the calls of the submission whose result the handler has received
SU_Returned ==
    {c \in Range(su_calls) :
        \/ c = "signUp" /\ (su.authError # NULL \/ su.created.id # NULL)
        \/ c = "create-agent" /\ (su.agentError # NULL \/ su.agent_id # NULL)
        \/ c = "profiles.update" /\ (su.profileUpdateError # NULL \/ su_pc \in {"insert", "done"})
        \/ c = "personas.insert" /\ (su.insertError # NULL \/ su.inserted # 0)}

CP_Returned ==
    {c \in Range(cp_calls) :
        \/ c = "profiles.select" /\ (cp.profile # <<>> \/ cp_pc # "profileRead")
        \/ c = "create-agent" /\ (cp.agentError # NULL \/ cp.agent_id # NULL)
        \/ c = "personas.insert" /\ (cp.insertError # NULL \/ cp.inserted # 0)
        \/ c = "profiles.update" /\ cp_pc = "done"}

\* C25: the calls of a submission are issued in the handler's order, at most
\* one has not returned yet and it is the one issued last; agent
\* provisioning is issued only after identity creation returned a user
\* without error, and the profile update and the persona insert only after
\* agent provisioning returned an agent id without error.
C25_StrictlySequential ==
    /\ IsPrefix(su_calls, SU_CallOrder)
    /\ Cardinality(Range(su_calls) \ SU_Returned) <= 1
    /\ \A c \in Range(su_calls) \ SU_Returned : c = su_calls[Len(su_calls)]
    /\ (Range(su_calls) \ SU_Returned # {}) <=> su_pc \in {"signUp", "agent", "profile", "insert"}
    /\ "create-agent" \in Range(su_calls)
       => /\ "signUp" \in SU_Returned \/ su_pc = "done"
          /\ su.authError = NULL
          /\ su.user # NULL
          /\ su.user = su.created.id
    /\ Range(su_calls) \cap {"profiles.update", "personas.insert"} # {}
       => /\ su.agentError = NULL
          /\ su.agent_id \in AgentIds
    /\ IsPrefix(cp_calls, CP_CallOrder)
    /\ Cardinality(Range(cp_calls) \ CP_Returned) <= 1
    /\ \A c \in Range(cp_calls) \ CP_Returned : c = cp_calls[Len(cp_calls)]
    /\ (Range(cp_calls) \ CP_Returned # {})
          <=> cp_pc \in {"profileRead", "agent", "insert", "profileUpdate"}
    /\ "create-agent" \in Range(cp_calls)
       => /\ cp.profile # <<>>
          /\ cp.profile[1].first_name \notin {NULL, ""}
          /\ cp.profile[1].last_name \notin {NULL, ""}
    /\ Range(cp_calls) \cap {"profiles.update", "personas.insert"} # {}
       => /\ cp.agentError = NULL
          /\ cp.agent_id \in AgentIds
    /\ "profiles.update" \in Range(cp_calls)
       => cp.insertError = NULL /\ cp.inserted # 0

\* the persona insert of a sign-up is in flight: the three calls before it
\* have returned
C25_Witness ==
    /\ su_pc = "insert"
    /\ su_calls = <<"signUp", "create-agent", "profiles.update", "personas.insert">>
    /\ SU_Returned = {"signUp", "create-agent", "profiles.update"}
    /\ su.profileUpdateError # NULL

----------------------------------------------------------------------------
(* The account view while the owner also uses another client of the store  *)

NextAccountShared ==
    \/ Account_Mount
    \/ \E n \in NetOutcomes : Account_ProfileReturn(n)
    \/ \E n \in NetOutcomes : Account_PersonaReturn(n)
    \/ \E v \in Visibilities : setVisibility(v)
    \/ handleVisibilitySave
    \/ \E n \in NetOutcomes : Account_UpdateReturn(n)
    \/ \E uid \in {"u1", "u2"}, id \in 1..MaxIds : Db_DeletePersona(uid, id)
    \/ Tick

SpecAccountShared == InitAccount /\ [][NextAccountShared]_vars

\* C27: in the step in which a visibility save is reported as saved, the
\* stored is_public of the persona equals the is_public that the view
\* displays from then on.
C27_SavedMeansStored ==
    [][(/\ acc_pc = "saving"
        /\ acc_pc' = "ready"
        /\ acc_toast'.title = "Saved")
       => {r.is_public : r \in {q \in personas' : q.id = acc_req.id}}
             = {acc_persona'[1].is_public}]_vars

----------------------------------------------------------------------------
(* One submission of either form whose remote calls may also reject         *)

NextRejects ==
    \/ \E f \in SU_Forms : SU_Submit(f)
    \/ \E m \in {AlreadyRegistered} \cup OtherAuthErrors : SU_SignUpError(m)
    \/ \E k \in SignUpKinds : SU_SignUpCreated(k)
    \/ \E e \in RemoteErrors \cup {NULL}, a \in AgentIds \cup {NULL} : SU_AgentReturn(e, a)
    \/ \E n \in NetOutcomes : SU_ProfileUpdateReturn(n)
    \/ \E n \in NetOutcomes : SU_InsertReturn(n)
    \/ \E m \in RemoteErrors : SU_CallRejects(m)
    \/ \E f \in CP_Forms : CP_Submit(f)
    \/ \E n \in NetOutcomes : CP_ProfileReturn(n)
    \/ \E e \in RemoteErrors \cup {NULL}, a \in AgentIds \cup {NULL} : CP_AgentReturn(e, a)
    \/ \E n \in NetOutcomes : CP_InsertReturn(n)
    \/ \E n \in NetOutcomes : CP_ProfileUpdateReturn(n)
    \/ \E m \in RemoteErrors : CP_CallRejects(m)

SpecRejects == InitForms /\ [][NextRejects]_vars

\* the handler of the submission has finished
SU_HandlerFinished == su_pc \in {"done", "rejected"}
CP_HandlerFinished == cp_pc = "done"

\* C28: once the handler of a submission has finished, on whichever exit
\* path, isLoading is false.
C28_LoadingCleared ==
    /\ SU_HandlerFinished => ~su_isLoading
    /\ CP_HandlerFinished => ~cp_isLoading

====
